---- MODULE Spec2Model ----
(***************************************************************************)
(* A model of napari-imagej's bridge between the Java runtime and napari:  *)
(*   - the module-item type resolver (types/type_conversions.py),          *)
(*   - the function synthesizer (_function.py),                            *)
(*   - the shape codec (_napari_converters.py),                            *)
(*   - the lazily imported Java classes and the ImageJ gateway (java.py),  *)
(*   - the menu of the widget (widgets/menu.py) and its settings           *)
(*     (__init__.py),                                                      *)
(*   - the module search widget (_function.py).                            *)
(* Each part has its own specification over the shared variables; the      *)
(* variables of the other parts stay at their idle values.                 *)
(***************************************************************************)
EXTENDS Integers, Sequences, FiniteSets, TLC

VARIABLES
    ptypes,                   \* types.mappings.ptypes(): ordered (jtype, ptype) pairs
    supports,                 \* ij().convert().supports: <<a, b>> iff supports(a, b)
    placeholders,             \* type_placeholders(): java type -> placeholder type or None
    _MODULE_ITEM_CONVERTERS,  \* registered (converter, priority) entries, in registration order
    module_item,              \* the ModuleItem whose Python type is asked for
    resolved,                 \* outcome of the last python_type_of or checker call
    modules,                  \* ij.module().getModules(): the module infos
    provided,                 \* outcome of the last napari_experimental_provide_function call
    invoked,                  \* outcome of the last run_module call
    points,                   \* vertex data of one 'rectangle' shape of a Shapes layer
    mask,                     \* the ROI built from points
    data,                     \* the shape data read back from mask
    given,                    \* the object a chain of layer conversions started from
    layer,                    \* the napari layer: given, or converted from Java
    roitree,                  \* the ROITree: given, or converted from a Shapes layer
    collection,               \* the RealPointCollection: given, or converted from a Points layer
    calls,                    \* the converter functions called so far, in order
    jvm_started,              \* scyjava.jvm_started()
    classpath,                \* the class names the JVM can load
    lookups,                  \* the JavaClasses property accesses made so far
    _ij,                      \* java._ij: the gateway, or None
    imagej_gateway,           \* imagej.gateway: a gateway PyImageJ already holds, or None
    installed,                \* component -> version on the classpath, or absent
    launches,                 \* how often imagej.init has run
    gateway_calls,            \* the init_ij() and ij() calls made so far, with outcomes
    settings,                 \* napari_imagej.settings: setting -> stored value
    platform,                 \* sys.platform
    applied,                  \* the last settings.read or _apply_setting_param call
    initialized,              \* UIShownListener.initialized
    deliveries,               \* where each delivery of a UIShownEvent stands in onEvent
    setups,                   \* how often the UI setup has been carried out
    clicked,                  \* what the last click on a transfer button did
    results,                  \* ExampleQWidget.results: the modules found
    focused_action_buttons,   \* ExampleQWidget.focused_action_buttons
    highlighted,              \* the modules highlighted, the last one last
    runs                      \* what the last click on an action button started

vars == <<ptypes, supports, placeholders, _MODULE_ITEM_CONVERTERS, module_item,
          resolved, modules, provided, invoked, points, mask, data,
          given, layer, roitree, collection, calls,
          jvm_started, classpath, lookups,
          _ij, imagej_gateway, installed, launches, gateway_calls,
          settings, platform, applied, initialized, deliveries, setups, clicked,
          results, focused_action_buttons, highlighted, runs>>

resolverVars == <<ptypes, supports, placeholders,
                  _MODULE_ITEM_CONVERTERS, module_item, resolved>>
synthVars == <<modules, provided, invoked>>
shapeVars == <<points, mask, data>>
layerVars == <<given, layer, roitree, collection, calls>>
javaVars == <<jvm_started, classpath, lookups>>
gatewayVars == <<_ij, imagej_gateway, installed, launches, gateway_calls>>
menuVars == <<settings, platform, applied, initialized, deliveries, setups, clicked>>
widgetVars == <<results, focused_action_buttons, highlighted, runs>>
coreVars == <<resolverVars, synthVars, shapeVars, layerVars, javaVars>>

(***************************************************************************)
(* Bounds of the model.                                                    *)
(***************************************************************************)
MaxPairs == 2          \* longest equivalence table
MaxSupports == 2       \* most pairs the conversion service supports
MaxPlaceholders == 1   \* most java types with a placeholder

\* Python's None
None == "None"

\* Least and greatest element of a non-empty set of integers.
SetMin(S) == CHOOSE x \in S : \A y \in S : x <= y
SetMax(S) == CHOOSE x \in S : \A y \in S : x >= y

\* The Java types of the model, the Python types paired with them and the
\* placeholder (Enum) types.
JTypes == {"Number", "Integer", "String"}
PTypes == {"int", "str"}
PlaceholderTypes == {"EnumChoice"}

\* scyjava.Priority levels used by the converters
Priority_HIGH == 100
Priority_NORMAL == 0
Priority_LOW == -100

\* Class.isAssignableFrom on the raw classes of the model: <<a, b>> is in it
\* iff a.isAssignableFrom(b).  Every class is assignable from itself, Number
\* from its subclass Integer, and String is unrelated to both.
isAssignableFrom ==
    {<<t, t>> : t \in JTypes} \cup {<<"Number", "Integer">>}

\* A ModuleItem: its declared type and its ItemIO (isInput() holds for INPUT
\* and BOTH, isOutput() for OUTPUT and BOTH).
ItemIOs == {"INPUT", "OUTPUT", "BOTH"}
ModuleItems == [type : JTypes, io : ItemIOs]
isInput(item) == item.io \in {"INPUT", "BOTH"}
isOutput(item) == item.io \in {"OUTPUT", "BOTH"}

(***************************************************************************)
(* types/type_conversions.py                                               *)
(***************************************************************************)

\* Faulty variant of placeholder_converter: the pure-input test is left out.
placeholder_converter_anyItem(item) == placeholders[item.type]

\* placeholder_converter: only a pure input can be satisfied by a placeholder.
placeholder_converter(item) ==
    IF isInput(item) /\ ~isOutput(item)
    THEN placeholders[item.type]
    ELSE None

\* The three loops of _checkerUsingFunc; each yields the index of the pair it
\* returns from, 0 when the loop ends without returning.  func is the set of
\* <<from_type, to_type>> for which the checker's function answers True.
\* Faulty variant of case 1: the loop does not return at its first match, so
\* the last matching pair wins.
RECURSIVE _case1_keepsLast(_, _, _)
_case1_keepsLast(java_type, func, i) ==
    IF i > Len(ptypes) THEN 0
    ELSE LET later == _case1_keepsLast(java_type, func, i + 1)
         IN  IF later # 0 THEN later
             ELSE IF <<ptypes[i].jtype, java_type>> \in func THEN i
             ELSE 0

RECURSIVE _case1(_, _, _)
_case1(java_type, func, i) ==
    IF i > Len(ptypes) THEN 0
    ELSE IF <<ptypes[i].jtype, java_type>> \in func THEN i
    ELSE _case1(java_type, func, i + 1)

\* Faulty variant of case 2: the table is scanned forward (reversed() left out).
RECURSIVE _case2_forwardFrom(_, _, _)
_case2_forwardFrom(java_type, func, k) ==
    IF k > Len(ptypes) THEN 0
    ELSE IF <<java_type, ptypes[k].jtype>> \in func THEN k
    ELSE _case2_forwardFrom(java_type, func, k + 1)

_case2_notReversed(java_type, func, i) == _case2_forwardFrom(java_type, func, 1)

RECURSIVE _case2(_, _, _)
_case2(java_type, func, i) ==
    IF i < 1 THEN 0
    ELSE IF <<java_type, ptypes[i].jtype>> \in func THEN i
    ELSE _case2(java_type, func, i - 1)

\* Faulty variant of case 3: only the input direction is tested.
RECURSIVE _case3_oneDirection(_, _, _)
_case3_oneDirection(java_type, func, i) ==
    IF i > Len(ptypes) THEN 0
    ELSE IF <<ptypes[i].jtype, java_type>> \in func THEN i
    ELSE _case3_oneDirection(java_type, func, i + 1)

RECURSIVE _case3(_, _, _)
_case3(java_type, func, i) ==
    IF i > Len(ptypes) THEN 0
    ELSE IF <<java_type, ptypes[i].jtype>> \in func
            /\ <<ptypes[i].jtype, java_type>> \in func THEN i
    ELSE _case3(java_type, func, i + 1)

\* Index of the pair _checkerUsingFunc returns from (0: it returns None).
_checkerIndex(item, func) ==
    IF isInput(item) /\ ~isOutput(item) THEN _case1(item.type, func, 1)
    ELSE IF isOutput(item) /\ ~isInput(item) THEN _case2(item.type, func, Len(ptypes))
    ELSE IF isInput(item) /\ isOutput(item) THEN _case3(item.type, func, 1)
    ELSE 0

_checkerUsingFunc(item, func) ==
    LET i == _checkerIndex(item, func)
    IN  IF i = 0 THEN None ELSE ptypes[i].ptype

\* isAssignable(from_type, to_type) is from_raw.isAssignableFrom(to_raw)
isAssignableChecker(item) == _checkerUsingFunc(item, isAssignableFrom)

\* isAssignable(from_type, to_type) is ij().convert().supports(from_type, to_type)
canConvertChecker(item) == _checkerUsingFunc(item, supports)

\* Calling a registered converter on an item.  An entry other than the three
\* built-in converters stands for a converter registered by a caller of
\* module_item_converter; it answers ret.
CallConverter(c, item) ==
    CASE c.name = "placeholder_converter" -> placeholder_converter(item)
      [] c.name = "isAssignableChecker" -> isAssignableChecker(item)
      [] c.name = "canConvertChecker" -> canConvertChecker(item)
      [] OTHER -> c.ret

\* The registry after the module is imported: the decorators at lines 70, 135
\* and 150 have run, in that order.
BuiltinConverters ==
    << [name |-> "placeholder_converter", priority |-> Priority_HIGH, ret |-> None],
       [name |-> "isAssignableChecker", priority |-> Priority_NORMAL, ret |-> None],
       [name |-> "canConvertChecker", priority |-> Priority_LOW, ret |-> None] >>

\* sorted(_MODULE_ITEM_CONVERTERS, reverse=True, key=lambda x: x[1]), as the
\* sequence of registration indices: a stable sort, so entries of equal
\* priority keep their registration order.
\* Faulty variant of the sort: an entry is placed before the entries of its
\* own priority, so equal priorities come out in reverse registration order.
RECURSIVE _insert_unstable(_, _, _)
_insert_unstable(cs, sortedIdx, k) ==
    IF sortedIdx = << >> THEN <<k>>
    ELSE IF cs[Head(sortedIdx)].priority > cs[k].priority
         THEN <<Head(sortedIdx)>> \o _insert_unstable(cs, Tail(sortedIdx), k)
         ELSE <<k>> \o sortedIdx

RECURSIVE _insert(_, _, _)
_insert(cs, sortedIdx, k) ==
    IF sortedIdx = << >> THEN <<k>>
    ELSE IF cs[Head(sortedIdx)].priority >= cs[k].priority
         THEN <<Head(sortedIdx)>> \o _insert(cs, Tail(sortedIdx), k)
         ELSE <<k>> \o sortedIdx

RECURSIVE _sortedUpTo(_, _)
_sortedUpTo(cs, n) ==
    IF n = 0 THEN << >>
    ELSE _insert(cs, _sortedUpTo(cs, n - 1), n)

\* Faulty variant of the sort: ascending priority (reverse=True left out).
RECURSIVE _insert_ascending(_, _, _)
_insert_ascending(cs, sortedIdx, k) ==
    IF sortedIdx = << >> THEN <<k>>
    ELSE IF cs[Head(sortedIdx)].priority <= cs[k].priority
         THEN <<Head(sortedIdx)>> \o _insert_ascending(cs, Tail(sortedIdx), k)
         ELSE <<k>> \o sortedIdx

RECURSIVE _sortedUpTo_ascending(_, _)
_sortedUpTo_ascending(cs, n) ==
    IF n = 0 THEN << >>
    ELSE _insert_ascending(cs, _sortedUpTo_ascending(cs, n - 1), n)

sorted_converters_ascending(cs) == _sortedUpTo_ascending(cs, Len(cs))

sorted_converters(cs) == _sortedUpTo(cs, Len(cs))

\* The loop of python_type_of over the sorted converters from position i on,
\* having consulted the registration indices in tried.
RECURSIVE _tryConverters(_, _, _, _, _)
_tryConverters(cs, order, item, i, tried) ==
    IF i > Len(order)
    THEN [raised |-> TRUE, value |-> None, consulted |-> tried]
    ELSE LET converted == CallConverter(cs[order[i]], item)
         IN  IF converted # None
             THEN [raised |-> FALSE, value |-> converted,
                   consulted |-> Append(tried, order[i])]
             ELSE _tryConverters(cs, order, item, i + 1, Append(tried, order[i]))

\* python_type_of: the first non-None answer, else ValueError.
python_type_of(item) ==
    _tryConverters(_MODULE_ITEM_CONVERTERS, sorted_converters(_MODULE_ITEM_CONVERTERS),
                   item, 1, << >>)

(***************************************************************************)
(* The environment the resolver runs in.                                   *)
(***************************************************************************)
RECURSIVE InjectiveSeqs(_, _)
InjectiveSeqs(S, n) ==
    IF n = 0 THEN {<< >>}
    ELSE LET shorter == InjectiveSeqs(S, n - 1)
         IN  shorter \cup
             {Append(s, x) : <<s, x>> \in
                 {<<s, x>> \in shorter \X S :
                     Len(s) = n - 1 /\ \A k \in 1..Len(s) : s[k] # x}}

\* Equivalence tables: ptypes() is a dict, so its java types are distinct.
Tables ==
    UNION {{[k \in 1..Len(js) |-> [jtype |-> js[k], ptype |-> ps[k]]] :
                ps \in [1..Len(js) -> PTypes]} : js \in InjectiveSeqs(JTypes, MaxPairs)}

RECURSIVE SubsetsUpTo(_, _)
SubsetsUpTo(S, n) ==
    IF n = 0 THEN {{}}
    ELSE LET smaller == SubsetsUpTo(S, n - 1)
         IN  smaller \cup {s \cup {x} : <<s, x>> \in smaller \X S}

SupportRelations == SubsetsUpTo(JTypes \X JTypes, MaxSupports)

PlaceholderMaps ==
    {m \in [JTypes -> PlaceholderTypes \cup {None}] :
        Cardinality({t \in JTypes : m[t] # None}) <= MaxPlaceholders}

\* resolved: which function was called (by), what it returned or raised
\* (result) and, for python_type_of, the registry it iterated (converters).
NoResolution == [by |-> "none"]

InitResolver ==
    /\ ptypes \in Tables
    /\ supports \in SupportRelations
    /\ placeholders \in PlaceholderMaps
    /\ _MODULE_ITEM_CONVERTERS = BuiltinConverters
    /\ module_item \in ModuleItems
    /\ resolved = NoResolution

IdleResolver ==
    /\ ptypes = << >>
    /\ supports = {}
    /\ placeholders = [t \in JTypes |-> None]
    /\ _MODULE_ITEM_CONVERTERS = BuiltinConverters
    /\ module_item = [type |-> "String", io |-> "INPUT"]
    /\ resolved = NoResolution

IdleSynth ==
    /\ modules = << >>
    /\ provided = [kind |-> "none"]
    /\ invoked = [kind |-> "none"]

NoMask == [kind |-> "none"]
NoData == [shape_type |-> "none", vertices |-> << >>]

IdleShapes ==
    /\ points = << >>
    /\ mask = NoMask
    /\ data = NoData

\* No layer, ROITree or RealPointCollection at hand.
Nothing == [type |-> "none"]

IdleLayers ==
    /\ given = Nothing
    /\ layer = Nothing
    /\ roitree = Nothing
    /\ collection = Nothing
    /\ calls = << >>

IdleJava ==
    /\ jvm_started = FALSE
    /\ classpath = {}
    /\ lookups = << >>

\* No gateway: the value None of _ij and of imagej.gateway.
NoGateway == [created |-> FALSE, launch |-> 0]

IdleGateway ==
    /\ _ij = NoGateway
    /\ imagej_gateway = NoGateway
    /\ installed = << >>
    /\ launches = 0
    /\ gateway_calls = << >>

IdleMenu ==
    /\ settings = << >>
    /\ platform = "linux"
    /\ applied = [call |-> "none"]
    /\ initialized = FALSE
    /\ deliveries = << >>
    /\ setups = 0
    /\ clicked = [handler |-> "none"]

IdleWidget ==
    /\ results = << >>
    /\ focused_action_buttons = << >>
    /\ highlighted = << >>
    /\ runs = [clicked |-> FALSE]

\* A caller asks for the Python type of the module item.
ResolveItem ==
    /\ resolved' = [by |-> "python_type_of", result |-> python_type_of(module_item),
                    converters |-> _MODULE_ITEM_CONVERTERS]
    /\ UNCHANGED <<ptypes, supports, placeholders, _MODULE_ITEM_CONVERTERS, module_item>>
    /\ UNCHANGED synthVars
    /\ UNCHANGED shapeVars
    /\ UNCHANGED layerVars
    /\ UNCHANGED javaVars
    /\ UNCHANGED gatewayVars
    /\ UNCHANGED menuVars
    /\ UNCHANGED widgetVars

\* A caller applies one of the two checkers to the module item.
CallAssignableChecker ==
    /\ resolved' = [by |-> "isAssignableChecker",
                    result |-> [raised |-> FALSE,
                                value |-> isAssignableChecker(module_item),
                                consulted |-> << >>],
                    converters |-> << >>]
    /\ UNCHANGED <<ptypes, supports, placeholders, _MODULE_ITEM_CONVERTERS, module_item>>
    /\ UNCHANGED synthVars
    /\ UNCHANGED shapeVars
    /\ UNCHANGED layerVars
    /\ UNCHANGED javaVars
    /\ UNCHANGED gatewayVars
    /\ UNCHANGED menuVars
    /\ UNCHANGED widgetVars

CallConvertChecker ==
    /\ resolved' = [by |-> "canConvertChecker",
                    result |-> [raised |-> FALSE,
                                value |-> canConvertChecker(module_item),
                                consulted |-> << >>],
                    converters |-> << >>]
    /\ UNCHANGED <<ptypes, supports, placeholders, _MODULE_ITEM_CONVERTERS, module_item>>
    /\ UNCHANGED synthVars
    /\ UNCHANGED shapeVars
    /\ UNCHANGED layerVars
    /\ UNCHANGED javaVars
    /\ UNCHANGED gatewayVars
    /\ UNCHANGED menuVars
    /\ UNCHANGED widgetVars

Init ==
    /\ InitResolver
    /\ IdleSynth
    /\ IdleShapes
    /\ IdleLayers
    /\ IdleJava
    /\ IdleGateway
    /\ IdleMenu
    /\ IdleWidget

Next ==
    \/ ResolveItem
    \/ CallAssignableChecker
    \/ CallConvertChecker

Spec == Init /\ [][Next]_vars

(***************************************************************************)
(* The registry under registration: module_item_converter is a public      *)
(* decorator, so converters can be registered after the built-in ones.     *)
(***************************************************************************)
MaxRegistered == 2     \* most converters registered after the built-in ones

Priorities == {Priority_LOW, Priority_NORMAL, Priority_HIGH}

\* module_item_converter(priority)(func): appends (func, priority).
RegisterConverter(priority, ret) ==
    /\ Len(_MODULE_ITEM_CONVERTERS) < Len(BuiltinConverters) + MaxRegistered
    /\ _MODULE_ITEM_CONVERTERS' =
           Append(_MODULE_ITEM_CONVERTERS,
                  [name |-> "registered", priority |-> priority, ret |-> ret])
    /\ UNCHANGED <<ptypes, supports, placeholders, module_item, resolved>>
    /\ UNCHANGED synthVars
    /\ UNCHANGED shapeVars
    /\ UNCHANGED layerVars
    /\ UNCHANGED javaVars
    /\ UNCHANGED gatewayVars
    /\ UNCHANGED menuVars
    /\ UNCHANGED widgetVars

\* One environment in which each built-in converter answers for some item:
\* the placeholder for a String input, the assignability checker for Number
\* and Integer items, the conversion checker for a String output.
InitRegistry ==
    /\ ptypes = << [jtype |-> "Number", ptype |-> "int"] >>
    /\ supports = {<<"String", "Number">>}
    /\ placeholders = [t \in JTypes |-> IF t = "String" THEN "EnumChoice" ELSE None]
    /\ _MODULE_ITEM_CONVERTERS = BuiltinConverters
    /\ module_item \in ModuleItems
    /\ resolved = NoResolution
    /\ IdleSynth
    /\ IdleShapes
    /\ IdleLayers
    /\ IdleJava
    /\ IdleGateway
    /\ IdleMenu
    /\ IdleWidget

NextRegistry ==
    \/ \E priority \in Priorities, ret \in PTypes \cup {None} :
           RegisterConverter(priority, ret)
    \/ ResolveItem

SpecRegistry == InitRegistry /\ [][NextRegistry]_vars

(***************************************************************************)
(* _function.py: the function synthesizer.                                 *)
(***************************************************************************)
MaxModules == 2        \* most module infos the module service lists

\* The entries of the _ptypes table whose Java types the model has, in the
\* order of the source.
_ptypes ==
    << [jtype |-> "Integer", ptype |-> "int"],
       [jtype |-> "String", ptype |-> "str"] >>

\* The two loops of _ptype: the index of the pair each returns from, 0 when
\* the loop ends without returning.
RECURSIVE _ptypeAssignable(_, _)
_ptypeAssignable(java_type, i) ==
    IF i > Len(_ptypes) THEN 0
    ELSE IF <<_ptypes[i].jtype, java_type>> \in isAssignableFrom THEN i
    ELSE _ptypeAssignable(java_type, i + 1)

RECURSIVE _ptypeSupports(_, _)
_ptypeSupports(java_type, i) ==
    IF i > Len(_ptypes) THEN 0
    ELSE IF <<java_type, _ptypes[i].jtype>> \in supports THEN i
    ELSE _ptypeSupports(java_type, i + 1)

\* _ptype: the Python type of a Java type, or ValueError.
_ptype(java_type) ==
    LET a == _ptypeAssignable(java_type, 1)
        c == _ptypeSupports(java_type, 1)
    IN  IF a # 0 THEN [raised |-> FALSE, value |-> _ptypes[a].ptype]
        ELSE IF c # 0 THEN [raised |-> FALSE, value |-> _ptypes[c].ptype]
        ELSE [raised |-> TRUE, value |-> None]

\* _return_type: None, the type of the single output, or dict.
_return_type(info) ==
    IF Len(info.outputs) = 0 THEN [raised |-> FALSE, value |-> None]
    ELSE IF Len(info.outputs) = 1 THEN _ptype(info.outputs[1].type)
    ELSE [raised |-> FALSE, value |-> "dict"]

\* info.getMenuPath(): None, or a list of menu entries.
NoMenuPath == [isNone |-> TRUE, entries |-> << >>]
MenuPath(entries) == [isNone |-> FALSE, entries |-> entries]

_usable(info) == ~info.menuPath.isNone /\ Len(info.menuPath.entries) > 0

\* The signature _functionify leaves on run_module: the rewritten one, or the
\* original (**kwargs) when the rewrite raised and the exception was printed.
_signature(info) ==
    IF \/ \E k \in 1..Len(info.inputs) : _ptype(info.inputs[k].type).raised
       \/ _return_type(info).raised
    THEN [parameters |-> "**kwargs", return_annotation |-> "empty"]
    ELSE [parameters |-> [k \in 1..Len(info.inputs) |->
                             [name |-> info.inputs[k].name,
                              annotation |-> _ptype(info.inputs[k].type).value]],
          return_annotation |-> _return_type(info).value]

\* The type hints of lines 160-162; computing them is not guarded, so a
\* ValueError of _ptype leaves _functionify.
_type_hints(info) ==
    IF \/ \E k \in 1..Len(info.inputs) : _ptype(info.inputs[k].type).raised
       \/ Len(info.outputs) = 1 /\ _ptype(info.outputs[1].type).raised
    THEN [raised |-> TRUE, value |-> None]
    ELSE [raised |-> FALSE,
          value |-> [params |-> [k \in 1..Len(info.inputs) |->
                                    [name |-> info.inputs[k].name,
                                     annotation |-> _ptype(info.inputs[k].type).value]],
                     return |-> IF Len(info.outputs) = 1
                                THEN _ptype(info.outputs[1].type).value
                                ELSE "dict"]]

\* _functionify: the callable of a module info, or the ValueError raised on
\* the way.  __name__ is the menu path (its entries stand for their labels,
\* numbered in alphabetical order).
_functionify(info) ==
    IF _type_hints(info).raised
    THEN [raised |-> TRUE]
    ELSE [raised |-> FALSE,
          function |-> [name |-> info.menuPath.entries,
                        signature |-> _signature(info),
                        annotation |-> _type_hints(info).value,
                        info |-> info]]

\* The order of __name__ strings.
RECURSIVE NameLE(_, _)
NameLE(a, b) ==
    IF a = << >> THEN TRUE
    ELSE IF b = << >> THEN FALSE
    ELSE IF Head(a) < Head(b) THEN TRUE
    ELSE IF Head(a) > Head(b) THEN FALSE
    ELSE NameLE(Tail(a), Tail(b))

\* sorted(functions, key=lambda f: f.__name__): a stable sort.
RECURSIVE _insertByName(_, _)
_insertByName(fs, f) ==
    IF fs = << >> THEN <<f>>
    ELSE IF NameLE(Head(fs).name, f.name)
         THEN <<Head(fs)>> \o _insertByName(Tail(fs), f)
         ELSE <<f>> \o fs

RECURSIVE _sortedByName(_)
_sortedByName(fs) ==
    IF fs = << >> THEN << >>
    ELSE _insertByName(_sortedByName(SubSeq(fs, 1, Len(fs) - 1)), fs[Len(fs)])

\* The list comprehension of napari_experimental_provide_function from module
\* i on: the callables of the usable infos, or the first ValueError.
RECURSIVE _functions(_, _)
_functions(infos, i) ==
    IF i > Len(infos) THEN [raised |-> FALSE, functions |-> << >>]
    ELSE IF ~_usable(infos[i]) THEN _functions(infos, i + 1)
    ELSE IF _functionify(infos[i]).raised THEN [raised |-> TRUE, functions |-> << >>]
    ELSE LET rest == _functions(infos, i + 1)
         IN  IF rest.raised THEN rest
             ELSE [raised |-> FALSE,
                   functions |-> <<_functionify(infos[i]).function>> \o rest.functions]

napari_experimental_provide_function ==
    LET built == _functions(modules, 1)
    IN  IF built.raised THEN [kind |-> "raised", functions |-> << >>]
        ELSE [kind |-> "returned", functions |-> _sortedByName(built.functions)]

\* ij.py.from_java on the values a module puts out.
JavaValues == {"java.lang.Integer(1)", "java.lang.Integer(2)"}
from_java(v) == IF v = "java.lang.Integer(1)" THEN 1 ELSE 2

\* Faulty variant of run_module: the mapping is unwrapped whenever it is not
\* empty.
run_module_result_popsAny(joutputs) ==
    LET outputs == [n \in DOMAIN joutputs |-> from_java(joutputs[n])]
    IN  IF Cardinality(DOMAIN outputs) >= 1
        THEN [kind |-> "value", value |-> outputs[CHOOSE n \in DOMAIN outputs : TRUE]]
        ELSE [kind |-> "mapping", value |-> outputs]

\* The last two steps of run_module on the output map m.getOutputs(): the
\* single value when there is exactly one output, else the whole mapping.
run_module_result(joutputs) ==
    LET outputs == [n \in DOMAIN joutputs |-> from_java(joutputs[n])]
    IN  IF Cardinality(DOMAIN outputs) = 1
        THEN [kind |-> "value", value |-> outputs[CHOOSE n \in DOMAIN outputs : TRUE]]
        ELSE [kind |-> "mapping", value |-> outputs]

\* Module infos: a menu path (None, empty, or entries), named typed inputs
\* and named typed outputs.
MenuPaths == {NoMenuPath, MenuPath(<< >>), MenuPath(<<1>>), MenuPath(<<2>>)}
InputLists == {<< >>, << [name |-> "x", type |-> "Number"] >>}
OutputLists ==
    { << >>,
      << [name |-> "out", type |-> "Integer"] >>,
      << [name |-> "out", type |-> "Number"] >>,
      << [name |-> "min", type |-> "Integer"], [name |-> "max", type |-> "Number"] >> }
ModuleInfos == [menuPath : MenuPaths, inputs : InputLists, outputs : OutputLists]

RECURSIVE SeqsUpTo(_, _)
SeqsUpTo(S, n) ==
    IF n = 0 THEN {<< >>}
    ELSE LET shorter == SeqsUpTo(S, n - 1)
         IN  shorter \cup {Append(q, x) : <<q, x>> \in {y \in shorter \X S : Len(y[1]) = n - 1}}

\* Number is the one type of the model outside _ptypes, so the one type for
\* which _ptype asks the conversion service.
SynthSupportRelations ==
    {r \in SupportRelations :
        \A pr \in r : pr[1] = "Number" /\ pr[2] \in {"Integer", "String"}}

InitSynth ==
    /\ modules \in SeqsUpTo(ModuleInfos, MaxModules)
    /\ supports \in SynthSupportRelations
    /\ provided = [kind |-> "none"]
    /\ invoked = [kind |-> "none"]
    /\ ptypes = << >>
    /\ placeholders = [t \in JTypes |-> None]
    /\ _MODULE_ITEM_CONVERTERS = BuiltinConverters
    /\ module_item = [type |-> "String", io |-> "INPUT"]
    /\ resolved = NoResolution
    /\ IdleShapes
    /\ IdleLayers
    /\ IdleJava
    /\ IdleGateway
    /\ IdleMenu
    /\ IdleWidget

\* napari asks the plugin for its functions.
ProvideFunction ==
    /\ provided' = napari_experimental_provide_function
    /\ UNCHANGED <<modules, invoked>>
    /\ UNCHANGED resolverVars
    /\ UNCHANGED shapeVars
    /\ UNCHANGED layerVars
    /\ UNCHANGED javaVars
    /\ UNCHANGED gatewayVars
    /\ UNCHANGED menuVars
    /\ UNCHANGED widgetVars

\* A provided callable is invoked; the module runs and puts out one Java
\* value per output item.
InvokeFunction(k, joutputs) ==
    /\ provided.kind = "returned"
    /\ k \in 1..Len(provided.functions)
    /\ DOMAIN joutputs =
           {provided.functions[k].info.outputs[o].name :
                o \in 1..Len(provided.functions[k].info.outputs)}
    /\ invoked' = [kind |-> "returned", info |-> provided.functions[k].info,
                   joutputs |-> joutputs, result |-> run_module_result(joutputs)]
    /\ UNCHANGED <<modules, provided>>
    /\ UNCHANGED resolverVars
    /\ UNCHANGED shapeVars
    /\ UNCHANGED layerVars
    /\ UNCHANGED javaVars
    /\ UNCHANGED gatewayVars
    /\ UNCHANGED menuVars
    /\ UNCHANGED widgetVars

OutputNames == {"out", "min", "max"}

NextSynth ==
    \/ ProvideFunction
    \/ \E k \in 1..MaxModules, names \in SUBSET OutputNames :
           \E joutputs \in [names -> JavaValues] : InvokeFunction(k, joutputs)

SpecSynth == InitSynth /\ [][NextSynth]_vars

(***************************************************************************)
(* _napari_converters.py: the shape codec for 'rectangle' shapes.          *)
(* Coordinates are small integers standing for the float64 values of the   *)
(* layer; on them the comparisons of the norms agree with the comparisons  *)
(* of the squared norms used here.                                         *)
(***************************************************************************)
MaxCoord == 2          \* largest coordinate of a vertex

Coords == -1..MaxCoord
Points2D == Coords \X Coords

\* arr: a new double[] holding the coordinates.
arr(coords) == [d \in 1..Len(coords) |-> coords[d]]

\* realPoint_from: a RealPoint at the coordinates.
realPoint_from(coords) == [position |-> arr(coords)]

\* RealPoint.localize into a double[] of the point's dimension.
localize(realPoint) == [d \in 1..Len(realPoint.position) |-> realPoint.position[d]]

\* np.linalg.norm(a - b), squared.
SqDistance(a, b) == (a[1] - b[1]) * (a[1] - b[1]) + (a[2] - b[2]) * (a[2] - b[2])

\* np.argmin and np.argmax: the first index of the least (greatest) entry.
argmin(values) ==
    CHOOSE i \in 1..Len(values) :
        /\ \A j \in 1..Len(values) : values[i] <= values[j]
        /\ \A j \in 1..(i - 1) : values[j] > values[i]

argmax(values) ==
    CHOOSE i \in 1..Len(values) :
        /\ \A j \in 1..Len(values) : values[i] >= values[j]
        /\ \A j \in 1..(i - 1) : values[j] < values[i]

\* Faulty variant of the search in _is_axis_aligned: the last point equal to
\* neither min nor max is taken.
_other_last(min, max, pts, i) ==
    LET S == {j \in i..Len(pts) : pts[j] # min /\ pts[j] # max}
    IN  IF S = {} THEN 0 ELSE SetMax(S)

\* next(filter(...), None) in _is_axis_aligned: the index of the first point
\* equal to neither min nor max, 0 for None.
RECURSIVE _other(_, _, _, _)
_other(min, max, pts, i) ==
    IF i > Len(pts) THEN 0
    ELSE IF pts[i] # min /\ pts[i] # max THEN i
    ELSE _other(min, max, pts, i + 1)

\* _is_axis_aligned: "TypeError" when no point differs from min and max
\* (None - min), else whether other - min is zero in some dimension.
_is_axis_aligned(min, max, pts) ==
    LET o == _other(min, max, pts, 1)
    IN  IF o = 0 THEN "TypeError"
        ELSE IF \E d \in 1..Len(min) : pts[o][d] - min[d] = 0 THEN "True"
        ELSE "False"

\* _polygon_data_to_mask: a ClosedWritablePolygon2D of the points, in order.
_polygon_data_to_mask(pts) ==
    [kind |-> "polygon", vertices |-> [i \in 1..Len(pts) |-> realPoint_from(pts[i])]]

\* _rectangle_data_to_mask: a ClosedWritableBox(min, max) when the points are
\* classified axis-aligned, else a polygon; the TypeError of _is_axis_aligned
\* is not caught.
_rectangle_data_to_mask(pts) ==
    LET origin == <<0, 0>>
        distances == [i \in 1..Len(pts) |-> SqDistance(origin, pts[i])]
        min == pts[argmin(distances)]
        min_distances == [i \in 1..Len(pts) |-> SqDistance(min, pts[i])]
        max == pts[argmax(min_distances)]
        aligned == _is_axis_aligned(min, max, pts)
    IN  IF aligned = "TypeError" THEN [kind |-> "TypeError"]
        ELSE IF aligned = "True" THEN [kind |-> "box", min |-> arr(min), max |-> arr(max)]
        ELSE _polygon_data_to_mask(pts)

\* _rectangle_mask_to_data: rows min and max.
_rectangle_mask_to_data(m) ==
    << [d \in 1..Len(m.min) |-> m.min[d]], [d \in 1..Len(m.max) |-> m.max[d]] >>

\* Faulty variant of _polyshape_to_layer_data: the rows are filled from the
\* last one backwards.
_polyshape_to_layer_data_backwards(m) ==
    [i \in 1..Len(m.vertices) |-> localize(m.vertices[Len(m.vertices) + 1 - i])]

\* _polyshape_to_layer_data: row i is vertex i.
_polyshape_to_layer_data(m) ==
    [i \in 1..Len(m.vertices) |-> localize(m.vertices[i])]

_polygon_mask_to_data(m) == _polyshape_to_layer_data(m)

InitShapes ==
    /\ points \in [1..4 -> Points2D]
    /\ mask = NoMask
    /\ data = NoData
    /\ IdleResolver
    /\ IdleSynth
    /\ IdleLayers
    /\ IdleJava
    /\ IdleGateway
    /\ IdleMenu
    /\ IdleWidget

\* _layer_to_roitree meets the shape: shape_type is 'rectangle'.
RectangleDataToMask ==
    /\ mask' = _rectangle_data_to_mask(points)
    /\ UNCHANGED <<points, data>>
    /\ UNCHANGED resolverVars
    /\ UNCHANGED synthVars
    /\ UNCHANGED layerVars
    /\ UNCHANGED javaVars
    /\ UNCHANGED gatewayVars
    /\ UNCHANGED menuVars
    /\ UNCHANGED widgetVars

\* _roitree_to_layer meets the mask: a Box goes to add_rectangles, a
\* Polygon2D to add_polygons.
BoxMaskToData ==
    /\ mask.kind = "box"
    /\ data' = [shape_type |-> "rectangle", vertices |-> _rectangle_mask_to_data(mask)]
    /\ UNCHANGED <<points, mask>>
    /\ UNCHANGED resolverVars
    /\ UNCHANGED synthVars
    /\ UNCHANGED layerVars
    /\ UNCHANGED javaVars
    /\ UNCHANGED gatewayVars
    /\ UNCHANGED menuVars
    /\ UNCHANGED widgetVars

PolygonMaskToData ==
    /\ mask.kind = "polygon"
    /\ data' = [shape_type |-> "polygon", vertices |-> _polygon_mask_to_data(mask)]
    /\ UNCHANGED <<points, mask>>
    /\ UNCHANGED resolverVars
    /\ UNCHANGED synthVars
    /\ UNCHANGED layerVars
    /\ UNCHANGED javaVars
    /\ UNCHANGED gatewayVars
    /\ UNCHANGED menuVars
    /\ UNCHANGED widgetVars

NextShapes ==
    \/ RectangleDataToMask
    \/ BoxMaskToData
    \/ PolygonMaskToData

SpecShapes == InitShapes /\ [][NextShapes]_vars

(***************************************************************************)
(* _napari_converters.py: whole layers.  A Shapes layer is the sequence of *)
(* its (vertices, shape_type) pairs, a ROITree the sequence of the ROIs of *)
(* its children.  The coordinates drawn are whole numbers on which the     *)
(* mean of _ellipse_data_to_mask is exact.                                 *)
(***************************************************************************)
MaxShapes == 2         \* most shapes of a Shapes layer, most ROIs of a ROITree
MaxPoints == 2         \* most points of a Points layer or RealPointCollection

Abs(x) == IF x < 0 THEN -x ELSE x

RECURSIVE Sum(_, _, _)
Sum(pts, d, i) == IF i > Len(pts) THEN 0 ELSE pts[i][d] + Sum(pts, d, i + 1)

\* np.mean(pts, axis=0)
np_mean(pts) == [d \in 1..2 |-> Sum(pts, d, 1) \div Len(pts)]

\* Faulty variant of _ellipse_data_to_mask: the radii keep their sign.
_ellipse_data_to_mask_signed(pts) ==
    LET center == np_mean(pts)
        radii == [d \in 1..2 |-> pts[1][d] - center[d]]
    IN  [kind |-> "ellipsoid", center |-> center, radii |-> radii]

\* _ellipse_data_to_mask: ClosedWritableEllipsoid(center, radii).
_ellipse_data_to_mask(pts) ==
    LET center == np_mean(pts)
        radii == [d \in 1..2 |-> Abs(pts[1][d] - center[d])]
    IN  [kind |-> "ellipsoid", center |-> center, radii |-> radii]

\* _ellipse_mask_to_data: row 0 the center, row 1 the semi-axis lengths.
_ellipse_mask_to_data(m) ==
    << [d \in 1..Len(m.center) |-> m.center[d]],
       [d \in 1..Len(m.center) |-> m.radii[d]] >>

\* _line_data_to_mask: DefaultWritableLine(start, end).
_line_data_to_mask(pts) ==
    [kind |-> "line", endpointOne |-> realPoint_from(pts[1]),
                      endpointTwo |-> realPoint_from(pts[2])]

\* Faulty variant of _line_mask_to_data: the endpoints are written in the
\* opposite rows.
_line_mask_to_data_swapped(m) == <<localize(m.endpointTwo), localize(m.endpointOne)>>

\* _line_mask_to_data: row 0 is endpoint one, row 1 endpoint two.
_line_mask_to_data(m) == <<localize(m.endpointOne), localize(m.endpointTwo)>>

\* _path_data_to_mask: a DefaultWritablePolyline of the points, in order.
_path_data_to_mask(pts) ==
    [kind |-> "polyline", vertices |-> [i \in 1..Len(pts) |-> realPoint_from(pts[i])]]

_path_mask_to_data(m) == _polyshape_to_layer_data(m)

\* _points_to_realpointcollection: a collection of the layer's points, in order.
_points_to_realpointcollection(points_layer) ==
    [type |-> "RealPointCollection",
     points |-> [i \in 1..Len(points_layer.data) |-> realPoint_from(points_layer.data[i])]]

\* _realpointcollection_to_points: a Points layer, row i the i-th point.
_realpointcollection_to_points(c) ==
    [type |-> "Points", data |-> [i \in 1..Len(c.points) |-> localize(c.points[i])]]

\* The error a conversion ended with instead of a mask or a shape.
Raises(error) == [kind |-> error]
Errors == {"TypeError", "NotImplementedError"}

\* The branch _layer_to_roitree takes for one (pts, shape_type) pair.
_shape_to_mask(pts, shape_type) ==
    IF shape_type = "ellipse" THEN _ellipse_data_to_mask(pts)
    ELSE IF shape_type = "rectangle" THEN _rectangle_data_to_mask(pts)
    ELSE IF shape_type = "polygon" THEN _polygon_data_to_mask(pts)
    ELSE IF shape_type = "line" THEN _line_data_to_mask(pts)
    ELSE IF shape_type = "path" THEN _path_data_to_mask(pts)
    ELSE Raises("NotImplementedError")

\* Faulty variant of the loop of _layer_to_roitree: a shape that cannot be
\* converted is passed over.
RECURSIVE _masks_skipping(_, _, _)
_masks_skipping(shapes, i, masks) ==
    IF i > Len(shapes) THEN [type |-> "ROITree", rois |-> masks]
    ELSE LET shape == _shape_to_mask(shapes[i].data, shapes[i].shape_type)
         IN  IF shape.kind \in Errors
             THEN _masks_skipping(shapes, i + 1, masks)
             ELSE _masks_skipping(shapes, i + 1, Append(masks, shape))

\* The loop of _layer_to_roitree from pair i on, masks holding the shapes
\* added so far: the ROITree of all masks, or the error raised on the way.
RECURSIVE _masks(_, _, _)
_masks(shapes, i, masks) ==
    IF i > Len(shapes) THEN [type |-> "ROITree", rois |-> masks]
    ELSE LET shape == _shape_to_mask(shapes[i].data, shapes[i].shape_type)
         IN  IF shape.kind \in Errors
             THEN [type |-> "raised", error |-> shape.kind]
             ELSE _masks(shapes, i + 1, Append(masks, shape))

_layer_to_roitree(shapes_layer) == _masks(shapes_layer.shapes, 1, << >>)

\* napari's Shapes layer stores an ellipse or a rectangle given by two rows
\* as the four corners of its bounding box: the least corner, then around.
find_corners(rows) ==
    LET lo == [d \in 1..2 |-> IF rows[1][d] <= rows[2][d] THEN rows[1][d] ELSE rows[2][d]]
        hi == [d \in 1..2 |-> IF rows[1][d] <= rows[2][d] THEN rows[2][d] ELSE rows[1][d]]
    IN  << <<lo[1], lo[2]>>, <<hi[1], lo[2]>>, <<hi[1], hi[2]>>, <<lo[1], hi[2]>> >>

center_radii_to_corners(center, radii) ==
    find_corners(<< [d \in 1..2 |-> center[d] + radii[d]],
                    [d \in 1..2 |-> center[d] - radii[d]] >>)

add_ellipses(shapes, rows) ==
    Append(shapes, [data |-> center_radii_to_corners(rows[1], rows[2]),
                    shape_type |-> "ellipse"])
add_rectangles(shapes, rows) ==
    Append(shapes, [data |-> find_corners(rows), shape_type |-> "rectangle"])
add_polygons(shapes, rows) == Append(shapes, [data |-> rows, shape_type |-> "polygon"])
add_lines(shapes, rows) == Append(shapes, [data |-> rows, shape_type |-> "line"])
add_paths(shapes, rows) == Append(shapes, [data |-> rows, shape_type |-> "path"])

\* The loop of _roitree_to_layer from ROI i on, shapes holding what was added
\* to the layer so far: the layer, or the NotImplementedError.
RECURSIVE _shapes(_, _, _)
_shapes(rois, i, shapes) ==
    IF i > Len(rois) THEN [type |-> "Shapes", shapes |-> shapes]
    ELSE LET roi == rois[i]
         IN  IF roi.kind = "ellipsoid"
             THEN _shapes(rois, i + 1, add_ellipses(shapes, _ellipse_mask_to_data(roi)))
             ELSE IF roi.kind = "box"
             THEN _shapes(rois, i + 1, add_rectangles(shapes, _rectangle_mask_to_data(roi)))
             ELSE IF roi.kind = "polygon"
             THEN _shapes(rois, i + 1, add_polygons(shapes, _polygon_mask_to_data(roi)))
             ELSE IF roi.kind = "line"
             THEN _shapes(rois, i + 1, add_lines(shapes, _line_mask_to_data(roi)))
             ELSE IF roi.kind = "polyline"
             THEN _shapes(rois, i + 1, add_paths(shapes, _path_mask_to_data(roi)))
             ELSE [type |-> "raised", error |-> "NotImplementedError"]

_roitree_to_layer(tree) == _shapes(tree.rois, 1, << >>)

\* What the conversions are given.  Shapes of every kind the layer can hold,
\* among them a rectangle turned by 45 degrees, a rectangle whose corners
\* coincide and a kind the codec does not know; ROIs of every kind, among
\* them one that is none of the five the codec knows.
MaxCalls == 2          \* most conversions in a row

Vertices == {<<0, 0>>, <<2, 1>>, <<-1, 2>>}

ShapeCatalogue ==
    {[data |-> <<e[1], e[2]>>, shape_type |-> "line"] : e \in Vertices \X Vertices}
    \cup {[data |-> <<<<0, 0>>, <<2, 1>>, <<-1, 2>>>>, shape_type |-> "path"],
          [data |-> <<<<2, 1>>, <<0, 0>>>>, shape_type |-> "path"],
          [data |-> <<<<0, 0>>, <<2, 0>>, <<1, 2>>>>, shape_type |-> "polygon"],
          [data |-> <<<<2, 0>>, <<4, 0>>, <<4, 2>>, <<2, 2>>>>, shape_type |-> "ellipse"],
          [data |-> <<<<0, 0>>, <<2, 0>>, <<2, 1>>, <<0, 1>>>>, shape_type |-> "rectangle"],
          [data |-> <<<<1, 0>>, <<2, 1>>, <<1, 2>>, <<0, 1>>>>, shape_type |-> "rectangle"],
          [data |-> <<<<1, 1>>, <<1, 1>>, <<1, 1>>, <<1, 1>>>>, shape_type |-> "rectangle"],
          [data |-> <<<<0, 0>>, <<2, 1>>>>, shape_type |-> "star"]}

RoiCatalogue ==
    {[kind |-> "ellipsoid", center |-> <<3, 1>>, radii |-> <<1, 1>>],
     [kind |-> "ellipsoid", center |-> <<0, 0>>, radii |-> <<2, 4>>],
     [kind |-> "box", min |-> <<0, 0>>, max |-> <<2, 1>>],
     _polygon_data_to_mask(<<<<0, 0>>, <<2, 0>>, <<1, 2>>>>),
     _line_data_to_mask(<<<<2, 1>>, <<-1, 2>>>>),
     _path_data_to_mask(<<<<0, 0>>, <<2, 1>>, <<-1, 2>>>>),
     [kind |-> "pointmask", position |-> <<2, 1>>]}

ShapesLayers == {[type |-> "Shapes", shapes |-> q] : q \in SeqsUpTo(ShapeCatalogue, MaxShapes)}
ROITrees == {[type |-> "ROITree", rois |-> q] : q \in SeqsUpTo(RoiCatalogue, MaxShapes)}
PointsLayers ==
    {[type |-> "Points", data |-> q] : q \in SeqsUpTo(Vertices, MaxPoints) \ {<< >>}}
RealPointCollections == {_points_to_realpointcollection(l) : l \in PointsLayers}

InitLayers ==
    /\ given \in ShapesLayers \cup PointsLayers \cup ROITrees \cup RealPointCollections
    /\ layer = IF given.type \in {"Shapes", "Points"} THEN given ELSE Nothing
    /\ roitree = IF given.type = "ROITree" THEN given ELSE Nothing
    /\ collection = IF given.type = "RealPointCollection" THEN given ELSE Nothing
    /\ calls = << >>
    /\ IdleResolver
    /\ IdleSynth
    /\ IdleShapes
    /\ IdleJava
    /\ IdleGateway
    /\ IdleMenu
    /\ IdleWidget

\* The converter of Shapes layers is applied to the layer.
LayerToRoitree ==
    /\ Len(calls) < MaxCalls
    /\ layer.type = "Shapes"
    /\ roitree' = _layer_to_roitree(layer)
    /\ calls' = Append(calls, "_layer_to_roitree")
    /\ UNCHANGED <<given, layer, collection>>
    /\ UNCHANGED resolverVars
    /\ UNCHANGED synthVars
    /\ UNCHANGED shapeVars
    /\ UNCHANGED javaVars
    /\ UNCHANGED gatewayVars
    /\ UNCHANGED menuVars
    /\ UNCHANGED widgetVars

\* The converter of ROITrees is applied to the tree.
RoitreeToLayer ==
    /\ Len(calls) < MaxCalls
    /\ roitree.type = "ROITree"
    /\ layer' = _roitree_to_layer(roitree)
    /\ calls' = Append(calls, "_roitree_to_layer")
    /\ UNCHANGED <<given, roitree, collection>>
    /\ UNCHANGED resolverVars
    /\ UNCHANGED synthVars
    /\ UNCHANGED shapeVars
    /\ UNCHANGED javaVars
    /\ UNCHANGED gatewayVars
    /\ UNCHANGED menuVars
    /\ UNCHANGED widgetVars

\* The converter of Points layers is applied to the layer.
PointsToRealPointCollection ==
    /\ Len(calls) < MaxCalls
    /\ layer.type = "Points"
    /\ collection' = _points_to_realpointcollection(layer)
    /\ calls' = Append(calls, "_points_to_realpointcollection")
    /\ UNCHANGED <<given, layer, roitree>>
    /\ UNCHANGED resolverVars
    /\ UNCHANGED synthVars
    /\ UNCHANGED shapeVars
    /\ UNCHANGED javaVars
    /\ UNCHANGED gatewayVars
    /\ UNCHANGED menuVars
    /\ UNCHANGED widgetVars

\* The converter of RealPointCollections is applied to the collection.
RealPointCollectionToPoints ==
    /\ Len(calls) < MaxCalls
    /\ collection.type = "RealPointCollection"
    /\ layer' = _realpointcollection_to_points(collection)
    /\ calls' = Append(calls, "_realpointcollection_to_points")
    /\ UNCHANGED <<given, roitree, collection>>
    /\ UNCHANGED resolverVars
    /\ UNCHANGED synthVars
    /\ UNCHANGED shapeVars
    /\ UNCHANGED javaVars
    /\ UNCHANGED gatewayVars
    /\ UNCHANGED menuVars
    /\ UNCHANGED widgetVars

NextLayers ==
    \/ LayerToRoitree
    \/ RoitreeToLayer
    \/ PointsToRealPointCollection
    \/ RealPointCollectionToPoints

SpecLayers == InitLayers /\ [][NextLayers]_vars

(***************************************************************************)
(* java.py: JavaClasses, the lazily imported Java classes.  A class handle *)
(* (JClass) is identified by the name of its class.                        *)
(***************************************************************************)
MaxLookups == 3        \* most property accesses in a run

\* Names JavaClasses properties return; ij.ImagePlus is on the classpath only
\* with imagej-legacy, net.imagej.Dataset only with an ImageJ2 endpoint.
ClassNames == {"java.lang.Boolean", "net.imagej.Dataset", "ij.ImagePlus"}
Classpaths == {cp \in SUBSET ClassNames : "java.lang.Boolean" \in cp}

\* scyjava.jimport: the JClass of the name, or the TypeError JPype raises for
\* a class it cannot find.
jimport(name) ==
    IF name \in classpath
    THEN [raised |-> FALSE, error |-> None, value |-> name]
    ELSE [raised |-> TRUE, error |-> "TypeError", value |-> None]

\* Faulty variant of the property: the JVM is not asked for.
blocking_import_unguarded(name) ==
    IF jimport(name).raised
    THEN [raised |-> FALSE, error |-> None, value |-> None]
    ELSE jimport(name)

\* Variant of the property that lets the TypeError of jimport through.
blocking_import_uncaught(name) ==
    IF ~jvm_started
    THEN [raised |-> TRUE, error |-> "Exception", value |-> None]
    ELSE jimport(name)

\* The property blocking_import makes of a function returning the name.
blocking_import(name) ==
    IF ~jvm_started
    THEN [raised |-> TRUE, error |-> "Exception", value |-> None]
    ELSE IF jimport(name).raised
    THEN [raised |-> FALSE, error |-> None, value |-> None]
    ELSE jimport(name)

InitJava ==
    /\ jvm_started = FALSE
    /\ classpath \in Classpaths
    /\ lookups = << >>
    /\ IdleResolver
    /\ IdleSynth
    /\ IdleShapes
    /\ IdleLayers
    /\ IdleGateway
    /\ IdleMenu
    /\ IdleWidget

\* init_ij launches ImageJ, which starts the JVM.
StartJVM ==
    /\ ~jvm_started
    /\ jvm_started' = TRUE
    /\ UNCHANGED <<classpath, lookups>>
    /\ UNCHANGED resolverVars
    /\ UNCHANGED synthVars
    /\ UNCHANGED shapeVars
    /\ UNCHANGED layerVars
    /\ UNCHANGED gatewayVars
    /\ UNCHANGED menuVars
    /\ UNCHANGED widgetVars

\* A property of jc is read; ready records whether the JVM had started.
Lookup(name) ==
    /\ Len(lookups) < MaxLookups
    /\ lookups' = Append(lookups, [name |-> name, ready |-> jvm_started,
                                   result |-> blocking_import(name)])
    /\ UNCHANGED <<jvm_started, classpath>>
    /\ UNCHANGED resolverVars
    /\ UNCHANGED synthVars
    /\ UNCHANGED shapeVars
    /\ UNCHANGED layerVars
    /\ UNCHANGED gatewayVars
    /\ UNCHANGED menuVars
    /\ UNCHANGED widgetVars

NextJava ==
    \/ StartJVM
    \/ \E name \in ClassNames : Lookup(name)

SpecJava == InitJava /\ [][NextJava]_vars

(***************************************************************************)
(* java.py: the ImageJ gateway, init_ij() and ij(), and the validation of  *)
(* the component versions.  A version is the tuple of its numbers; two of  *)
(* the required components and the two optional ones are modelled.         *)
(***************************************************************************)
MaxGatewayCalls == 3   \* most init_ij() and ij() calls in a run

\* The components _validate_imagej checks, in the order of the dictionary it
\* builds: required ones first, then imagej-legacy and TrackMate.
Components ==
    << "io.scif:scifio", "net.imagej:imagej-common",
       "net.imagej:imagej-legacy", "sc.fiji:TrackMate" >>
OptionalComponents == {"net.imagej:imagej-legacy", "sc.fiji:TrackMate"}

minimum_versions ==
    [c \in {Components[i] : i \in 1..Len(Components)} |->
        IF c = "io.scif:scifio" THEN <<0, 45, 0>>
        ELSE IF c = "net.imagej:imagej-common" THEN <<2, 0, 2>>
        ELSE IF c = "net.imagej:imagej-legacy" THEN <<1, 1, 0>>
        ELSE <<7, 11, 0>>]

\* The component is not on the classpath.
Absent == << >>

\* scyjava.is_version_at_least: the numbers compared from the left.
RECURSIVE is_version_at_least(_, _)
is_version_at_least(actual, minimum) ==
    IF minimum = << >> THEN TRUE
    ELSE IF actual = << >> THEN FALSE
    ELSE IF Head(actual) > Head(minimum) THEN TRUE
    ELSE IF Head(actual) < Head(minimum) THEN FALSE
    ELSE is_version_at_least(Tail(actual), Tail(minimum))

\* component_requirements: the required components and, of the optional
\* ones, those _optional_requirements finds.
_component_requirements ==
    SelectSeq(Components, LAMBDA c : c \notin OptionalComponents \/ installed[c] # Absent)

\* Faulty variant of the loop of _validate_imagej: it stops at the first
\* violation.
RECURSIVE _violations_firstOnly(_)
_violations_firstOnly(i) ==
    IF i > Len(_component_requirements) THEN << >>
    ELSE LET component == _component_requirements[i]
             min_version == minimum_versions[component]
             component_version == installed[component]
         IN  IF ~is_version_at_least(component_version, min_version)
             THEN << [component |-> component, min_version |-> min_version,
                      installed |-> component_version] >>
             ELSE _violations_firstOnly(i + 1)

\* The loop of _validate_imagej from requirement i on: one line per component
\* whose version is not at least its minimum.
RECURSIVE _violations(_)
_violations(i) ==
    IF i > Len(_component_requirements) THEN << >>
    ELSE LET component == _component_requirements[i]
             min_version == minimum_versions[component]
             component_version == installed[component]
         IN  IF ~is_version_at_least(component_version, min_version)
             THEN << [component |-> component, min_version |-> min_version,
                      installed |-> component_version] >> \o _violations(i + 1)
             ELSE _violations(i + 1)

\* _validate_imagej: a RuntimeError carrying all violations, or nothing.
_validate_imagej ==
    LET violations == _violations(1)
    IN  [raised |-> violations # << >>, report |-> violations]

\* The gateway of the k-th launch.
Gateway(k) == [created |-> TRUE, launch |-> k]

\* Faulty variant of init_ij: the gateway at hand is not returned, ImageJ is
\* launched at every call.
init_ij_relaunching(gateway) ==
    LET launch == ~imagej_gateway.created
        new == IF launch THEN Gateway(launches + 1) ELSE imagej_gateway
    IN  [_ij |-> new, launched |-> launch, validated |-> TRUE,
         raised |-> _validate_imagej.raised, report |-> _validate_imagej.report,
         value |-> IF _validate_imagej.raised THEN NoGateway ELSE new]

\* init_ij, with gateway the value of _ij at the call: the new value of _ij
\* and what the caller gets.
init_ij(gateway) ==
    IF gateway.created
    THEN [_ij |-> gateway, launched |-> FALSE, validated |-> FALSE,
          raised |-> FALSE, report |-> << >>, value |-> gateway]
    ELSE LET launch == ~imagej_gateway.created
             new == IF launch THEN Gateway(launches + 1) ELSE imagej_gateway
         IN  [_ij |-> new, launched |-> launch, validated |-> TRUE,
              raised |-> _validate_imagej.raised, report |-> _validate_imagej.report,
              value |-> IF _validate_imagej.raised THEN NoGateway ELSE new]

\* ij(): the gateway, or the exception 'not yet been initialized'.
ij(gateway) ==
    IF ~gateway.created
    THEN [raised |-> TRUE, value |-> NoGateway]
    ELSE [raised |-> FALSE, value |-> gateway]

\* The versions an endpoint can bring: below, at and above the minimum.
InstalledVersions ==
    [c \in {Components[i] : i \in 1..Len(Components)} |->
        IF c = "io.scif:scifio" THEN {<<0, 44, 2>>, <<0, 45, 0>>, <<1, 0, 0>>}
        ELSE IF c = "net.imagej:imagej-common" THEN {<<2, 0, 1>>, <<2, 0, 2>>, <<2, 1, 0>>}
        ELSE IF c = "net.imagej:imagej-legacy" THEN {Absent, <<1, 0, 9>>, <<1, 1, 0>>}
        ELSE {Absent, <<7, 10, 2>>, <<7, 11, 0>>}]

InitGateway ==
    /\ _ij = NoGateway
    /\ imagej_gateway \in {NoGateway, Gateway(0)}
    /\ installed \in {f \in [DOMAIN InstalledVersions -> UNION {InstalledVersions[c] : c \in DOMAIN InstalledVersions}] :
                         \A c \in DOMAIN InstalledVersions : f[c] \in InstalledVersions[c]}
    /\ launches = 0
    /\ gateway_calls = << >>
    /\ IdleResolver
    /\ IdleSynth
    /\ IdleShapes
    /\ IdleLayers
    /\ IdleJava
    /\ IdleMenu
    /\ IdleWidget

\* A caller runs init_ij().
CallInitIJ ==
    /\ Len(gateway_calls) < MaxGatewayCalls
    /\ LET did == init_ij(_ij)
       IN  /\ _ij' = did._ij
           /\ launches' = IF did.launched THEN launches + 1 ELSE launches
           /\ gateway_calls' =
                  Append(gateway_calls,
                         [fn |-> "init_ij", raised |-> did.raised, value |-> did.value,
                          report |-> did.report, launched |-> did.launched,
                          validated |-> did.validated])
    /\ UNCHANGED <<imagej_gateway, installed>>
    /\ UNCHANGED coreVars
    /\ UNCHANGED menuVars
    /\ UNCHANGED widgetVars

\* A caller runs ij().
CallIJ ==
    /\ Len(gateway_calls) < MaxGatewayCalls
    /\ gateway_calls' =
           Append(gateway_calls,
                  [fn |-> "ij", raised |-> ij(_ij).raised, value |-> ij(_ij).value,
                   report |-> << >>, launched |-> FALSE, validated |-> FALSE])
    /\ UNCHANGED <<_ij, imagej_gateway, installed, launches>>
    /\ UNCHANGED coreVars
    /\ UNCHANGED menuVars
    /\ UNCHANGED widgetVars

NextGateway ==
    \/ CallInitIJ
    \/ CallIJ

SpecGateway == InitGateway /\ [][NextGateway]_vars

(***************************************************************************)
(* widgets/menu.py and __init__.py: the settings, the transfer buttons and *)
(* the listener for UIShownEvents.  settings maps each setting to the      *)
(* value settings[setting].get() yields; reading the configuration again   *)
(* adds sources below the ones at hand and so changes none of these values.*)
(***************************************************************************)
MaxDeliveries == 2     \* most UIShownEvents delivered to the listener

Str(text) == [type |-> "str", text |-> text]
Path(text) == [type |-> "Path", text |-> text]

SettingNames == {"jvm_mode", "imagej_base_directory"}
JvmModeChoices == {"interactive", "headless"}

\* _validate_setting: the exception it raises, if any, and the settings it
\* leaves.  as_choice looks at the stored jvm_mode.
_validate_setting(setting, value, strict) ==
    IF setting # "jvm_mode"
    THEN [raised |-> FALSE, settings |-> settings]
    ELSE IF settings["jvm_mode"].text \notin JvmModeChoices
    THEN [raised |-> TRUE, settings |-> settings]
    ELSE IF value = Str("interactive") /\ platform = "darwin"
    THEN IF strict
         THEN [raised |-> TRUE, settings |-> settings]
         ELSE [raised |-> FALSE,
               settings |-> [settings EXCEPT !["jvm_mode"] = Str("headless")]]
    ELSE [raised |-> FALSE, settings |-> settings]

\* _NapariImageJSettings.read on the settings at hand: each setting is
\* validated, not strictly; imagej_base_directory needs no validation.
read ==
    _validate_setting("jvm_mode", settings["jvm_mode"], FALSE)

\* Faulty variant of _apply_setting_param: the old value is recorded after
\* the new one has been set.
_apply_setting_param_recordsAfter(setting, offered) ==
    LET value == IF offered.type = "Path" THEN Str(offered.text) ELSE offered
    IN  IF _validate_setting(setting, value, TRUE).raised
        THEN [returned |-> FALSE, popup |-> TRUE, settings |-> settings]
        ELSE [returned |-> FALSE, popup |-> FALSE,
              settings |-> [settings EXCEPT ![setting] = value]]

\* _apply_setting_param: what it returns, whether it shows the popup, and the
\* settings it leaves.
_apply_setting_param(setting, offered) ==
    LET value == IF offered.type = "Path" THEN Str(offered.text) ELSE offered
    IN  IF _validate_setting(setting, value, TRUE).raised
        THEN [returned |-> FALSE, popup |-> TRUE, settings |-> settings]
        ELSE LET original == settings[setting]
             IN  [returned |-> original # value, popup |-> FALSE,
                  settings |-> [settings EXCEPT ![setting] = value]]

\* What a caller can offer for a setting.
OfferedValues(setting) ==
    IF setting = "jvm_mode"
    THEN {Str("interactive"), Str("headless"), Str("fiji")}
    ELSE {Str("."), Str("/opt/fiji"), Path("."), Path("/opt/fiji")}

\* What request_values returns for the layer chooser: None when the dialog is
\* dismissed, else the layer chosen (None when there is no layer to choose).
Dismissed == [dismissed |-> TRUE, choice |-> None]
Chosen(x) == [dismissed |-> FALSE, choice |-> x]
LayerChoices == {Dismissed, Chosen(None), Chosen("blobs")}
ImageChoices == {Dismissed, Chosen("blobs.tif")}

\* ToIJButton.send_chosen_layer
send_chosen_layer(choices) ==
    IF choices.dismissed
    THEN [handler |-> "send_chosen_layer", choices |-> choices,
          popup |-> TRUE, transferred |-> None]
    ELSE IF choices.choice # None
    THEN [handler |-> "send_chosen_layer", choices |-> choices,
          popup |-> FALSE, transferred |-> choices.choice]
    ELSE [handler |-> "send_chosen_layer", choices |-> choices,
          popup |-> FALSE, transferred |-> None]

\* FromIJButton.get_chosen_layer: for None, handle_no_choices is named but
\* not called.
get_chosen_layer(choices) ==
    IF choices.dismissed
    THEN [handler |-> "get_chosen_layer", choices |-> choices,
          popup |-> FALSE, transferred |-> None]
    ELSE [handler |-> "get_chosen_layer", choices |-> choices,
          popup |-> FALSE, transferred |-> choices.choice]

\* The settings after the module was imported: read() has validated them.
InitMenu ==
    /\ platform \in {"linux", "darwin"}
    /\ settings \in {st \in [SettingNames -> {Str("interactive"), Str("headless"),
                                              Str("."), Str("/opt/fiji")}] :
                        /\ st["jvm_mode"].text \in JvmModeChoices
                        /\ platform = "darwin" => st["jvm_mode"] = Str("headless")
                        /\ st["imagej_base_directory"].text \in {".", "/opt/fiji"}}
    /\ applied = [call |-> "none"]
    /\ initialized = FALSE
    /\ deliveries = [d \in 1..MaxDeliveries |-> "pending"]
    /\ setups = 0
    /\ clicked = [handler |-> "none"]
    /\ IdleResolver
    /\ IdleSynth
    /\ IdleShapes
    /\ IdleLayers
    /\ IdleJava
    /\ IdleGateway
    /\ IdleWidget

\* settings.read() is called again.
ReadSettings ==
    /\ settings' = read.settings
    /\ applied' = [call |-> "read", raised |-> read.raised, before |-> settings]
    /\ UNCHANGED <<platform, initialized, deliveries, setups, clicked>>
    /\ UNCHANGED coreVars
    /\ UNCHANGED gatewayVars
    /\ UNCHANGED widgetVars

\* SettingsButton._apply_setting_param(setting, offered)
ApplySettingParam(setting, offered) ==
    /\ settings' = _apply_setting_param(setting, offered).settings
    /\ applied' = [call |-> "_apply_setting_param", setting |-> setting,
                   offered |-> offered, before |-> settings,
                   returned |-> _apply_setting_param(setting, offered).returned,
                   popup |-> _apply_setting_param(setting, offered).popup]
    /\ UNCHANGED <<platform, initialized, deliveries, setups, clicked>>
    /\ UNCHANGED coreVars
    /\ UNCHANGED gatewayVars
    /\ UNCHANGED widgetVars

\* A click on the ToIJButton; the chooser returns choices.
SendChosenLayer(choices) ==
    /\ clicked' = send_chosen_layer(choices)
    /\ UNCHANGED <<settings, platform, applied, initialized, deliveries, setups>>
    /\ UNCHANGED coreVars
    /\ UNCHANGED gatewayVars
    /\ UNCHANGED widgetVars

\* A click on the FromIJButton; the chooser returns choices.
GetChosenLayer(choices) ==
    /\ clicked' = get_chosen_layer(choices)
    /\ UNCHANGED <<settings, platform, applied, initialized, deliveries, setups>>
    /\ UNCHANGED coreVars
    /\ UNCHANGED gatewayVars
    /\ UNCHANGED widgetVars

\* UIShownListener.onEvent, delivery d.  Nothing in onEvent keeps two
\* deliveries apart, so its three steps are taken one at a time: the test of
\* initialized, the UI setup, the assignment to initialized.
OnEventTest(d) ==
    /\ deliveries[d] = "pending"
    /\ deliveries' = [deliveries EXCEPT ![d] = IF initialized THEN "done" ELSE "setup"]
    /\ UNCHANGED <<settings, platform, applied, initialized, setups, clicked>>
    /\ UNCHANGED coreVars
    /\ UNCHANGED gatewayVars
    /\ UNCHANGED widgetVars

OnEventSetup(d) ==
    /\ deliveries[d] = "setup"
    /\ setups' = setups + 1
    /\ deliveries' = [deliveries EXCEPT ![d] = "mark"]
    /\ UNCHANGED <<settings, platform, applied, initialized, clicked>>
    /\ UNCHANGED coreVars
    /\ UNCHANGED gatewayVars
    /\ UNCHANGED widgetVars

OnEventMark(d) ==
    /\ deliveries[d] = "mark"
    /\ initialized' = TRUE
    /\ deliveries' = [deliveries EXCEPT ![d] = "done"]
    /\ UNCHANGED <<settings, platform, applied, setups, clicked>>
    /\ UNCHANGED coreVars
    /\ UNCHANGED gatewayVars
    /\ UNCHANGED widgetVars

NextMenu ==
    \/ ReadSettings
    \/ \E setting \in SettingNames :
           \E offered \in OfferedValues(setting) : ApplySettingParam(setting, offered)
    \/ \E choices \in LayerChoices : SendChosenLayer(choices)
    \/ \E choices \in ImageChoices : GetChosenLayer(choices)
    \/ \E d \in 1..MaxDeliveries : OnEventTest(d)
    \/ \E d \in 1..MaxDeliveries : OnEventSetup(d)
    \/ \E d \in 1..MaxDeliveries : OnEventMark(d)

SpecMenu == InitMenu /\ [][NextMenu]_vars

(***************************************************************************)
(* _function.py, ExampleQWidget: the search, the highlighting of a result  *)
(* and the action buttons.  Rows are counted from 1 here, from 0 in the    *)
(* widget.  A button is its text, whether it is visible, and the rows its  *)
(* clicked signal is connected for, in the order of connection.            *)
(***************************************************************************)
MaxHighlights == 3     \* most _highlight_module calls
maxResults == 12

TableRows == 1..maxResults

ModuleNames == {"blur", "invert"}

\* searchService.actions(result)
actions(name) ==
    IF name = "blur" THEN <<"Run", "Help">> ELSE <<"Run">>

\* What searcher.search can return.
SearchResults == {<< >>, <<"blur">>, <<"invert">>, <<"invert", "blur">>}

QPushButton == [text |-> "", visible |-> FALSE, connected |-> << >>]

\* The buttons after the two while loops of _highlight_module, for n actions.
ButtonsFor(n) ==
    LET have == Len(focused_action_buttons)
    IN  [i \in 1..(IF have < n THEN n ELSE have) |->
            IF i > have THEN QPushButton
            ELSE IF i > n
            THEN [focused_action_buttons[i] EXCEPT !.visible = FALSE]
            ELSE focused_action_buttons[i]]

\* _highlight_module(row, col): the exception it raises, if any, and the
\* buttons it leaves.
_highlight_module(row) ==
    IF row > Len(results)
    THEN [raised |-> TRUE, buttons |-> focused_action_buttons]
    ELSE LET focused_actions == actions(results[row])
             buttons == ButtonsFor(Len(focused_actions))
         IN  [raised |-> FALSE,
              buttons |->
                  [i \in 1..Len(buttons) |->
                      IF i <= Len(focused_actions)
                      THEN [text |-> focused_actions[i],
                            visible |-> TRUE,
                            connected |-> Append(buttons[i].connected, row)]
                      ELSE buttons[i]]]

\* The modules the slots connected to a button start when the button is
\* clicked: each slot reads results[row] when it is called.  A slot whose row
\* lies beyond the results raises; the slots after it are called or not,
\* as the Qt binding has it.
RECURSIVE Started(_, _)
Started(connected, goesOn) ==
    IF connected = << >> THEN << >>
    ELSE IF Head(connected) > Len(results)
    THEN IF goesOn THEN Started(Tail(connected), goesOn) ELSE << >>
    ELSE <<results[Head(connected)]>> \o Started(Tail(connected), goesOn)

InitWidget ==
    /\ results = << >>
    /\ focused_action_buttons = << >>
    /\ highlighted = << >>
    /\ runs = [clicked |-> FALSE]
    /\ IdleResolver
    /\ IdleSynth
    /\ IdleShapes
    /\ IdleLayers
    /\ IdleJava
    /\ IdleGateway
    /\ IdleMenu

\* The text of the search bar changes and the searcher returns found.
Search(found) ==
    /\ results' = found
    /\ UNCHANGED <<focused_action_buttons, highlighted, runs>>
    /\ UNCHANGED coreVars
    /\ UNCHANGED gatewayVars
    /\ UNCHANGED menuVars

\* A cell of the results table is clicked.
HighlightModule(row) ==
    /\ Len(highlighted) < MaxHighlights
    /\ focused_action_buttons' = _highlight_module(row).buttons
    /\ highlighted' = IF _highlight_module(row).raised
                         THEN highlighted
                         ELSE Append(highlighted, results[row])
    /\ UNCHANGED <<results, runs>>
    /\ UNCHANGED coreVars
    /\ UNCHANGED gatewayVars
    /\ UNCHANGED menuVars

\* A visible action button is clicked.
ClickActionButton(i, goesOn) ==
    /\ i \in 1..Len(focused_action_buttons)
    /\ focused_action_buttons[i].visible
    /\ runs' = [clicked |-> TRUE, button |-> i,
                started |-> Started(focused_action_buttons[i].connected, goesOn),
                slots |-> Len(focused_action_buttons[i].connected)]
    /\ UNCHANGED <<results, focused_action_buttons, highlighted>>
    /\ UNCHANGED coreVars
    /\ UNCHANGED gatewayVars
    /\ UNCHANGED menuVars

NextWidget ==
    \/ \E found \in SearchResults : Search(found)
    \/ \E row \in TableRows : HighlightModule(row)
    \/ \E i \in 1..2 : \E goesOn \in BOOLEAN : ClickActionButton(i, goesOn)

SpecWidget == InitWidget /\ [][NextWidget]_vars

(***************************************************************************)
(* Claims about the function synthesizer.                                  *)
(***************************************************************************)
\* Some pair of _ptypes satisfies the Java type: by assignability, or by the
\* conversion service.
Satisfiable(java_type) ==
    \/ \E i \in 1..Len(_ptypes) : <<_ptypes[i].jtype, java_type>> \in isAssignableFrom
    \/ \E i \in 1..Len(_ptypes) : <<java_type, _ptypes[i].jtype>> \in supports

AllItemsSupported(info) ==
    /\ \A k \in 1..Len(info.inputs) : Satisfiable(info.inputs[k].type)
    /\ \A k \in 1..Len(info.outputs) : Satisfiable(info.outputs[k].type)

HasMenuPath(info) == ~info.menuPath.isNone /\ info.menuPath.entries # << >>

\* C1: when some item of a module has a type nothing satisfies, providing the
\* functions does not raise; it returns the callables of exactly the modules
\* that have a menu path and only supported items.
C1_UnsupportedUnitLeftOut ==
    (/\ provided.kind # "none"
     /\ \E i \in 1..Len(modules) : ~AllItemsSupported(modules[i]))
    => /\ provided.kind = "returned"
       /\ {provided.functions[k].info : k \in 1..Len(provided.functions)}
              = {modules[i] : i \in {j \in 1..Len(modules) :
                                        /\ HasMenuPath(modules[j])
                                        /\ AllItemsSupported(modules[j])}}

\* C2: a synthesized callable returns the bare (converted) output value when
\* the module put out exactly one output, and the mapping of every output name
\* to its converted value when it put out none or several.
C2_SingleValueOrMapping ==
    invoked.kind = "returned" =>
        LET names == DOMAIN invoked.joutputs
        IN  IF Cardinality(names) = 1
            THEN /\ invoked.result.kind = "value"
                 /\ \A n \in names : invoked.result.value = from_java(invoked.joutputs[n])
            ELSE /\ invoked.result.kind = "mapping"
                 /\ DOMAIN invoked.result.value = names
                 /\ \A n \in names :
                        invoked.result.value[n] = from_java(invoked.joutputs[n])

\* A module with the outputs min and max has run and the call returned the
\* mapping of both.
C2_Witness ==
    /\ invoked.kind = "returned"
    /\ DOMAIN invoked.joutputs = {"min", "max"}
    /\ invoked.result.kind = "mapping"
    /\ invoked.result.value["min"] = 1
    /\ invoked.result.value["max"] = 2

\* What the claims expect as return annotation: the Python type of the single
\* output, dict for no output or several.
ExpectedReturnAnnotation(info) ==
    IF Len(info.outputs) = 1 THEN _ptype(info.outputs[1].type).value ELSE "dict"

\* C16: the return annotation of every synthesized callable, in its signature
\* and in its type hints, is the resolved type of the single output when the
\* module has exactly one output, and dict when it has none or several.
C16_ReturnAnnotation ==
    provided.kind = "returned" =>
        \A k \in 1..Len(provided.functions) :
            LET f == provided.functions[k]
            IN  /\ f.signature.return_annotation = ExpectedReturnAnnotation(f.info)
                /\ f.annotation.return = ExpectedReturnAnnotation(f.info)

\* C17: providing the functions returns no callable for a module whose menu
\* path is absent or empty, and exactly one callable for every listed module
\* that has a non-empty menu path and only supported items.
C17_SkipsUnitsWithoutMenuPath ==
    provided.kind # "none" =>
        /\ provided.kind = "returned"
        /\ \A k \in 1..Len(provided.functions) : HasMenuPath(provided.functions[k].info)
        /\ \A i \in 1..Len(modules) :
               (HasMenuPath(modules[i]) /\ AllItemsSupported(modules[i])) =>
                   Cardinality({k \in 1..Len(provided.functions) :
                                   provided.functions[k].info = modules[i]})
                       = Cardinality({j \in 1..Len(modules) : modules[j] = modules[i]})

(***************************************************************************)
(* Claims about the shape codec.                                           *)
(***************************************************************************)
PointSet(pts) == {pts[i] : i \in 1..Len(pts)}
Xs(pts) == {pts[i][1] : i \in 1..Len(pts)}
Ys(pts) == {pts[i][2] : i \in 1..Len(pts)}

\* The four points are the four corners of an axis-aligned rectangle.
IsAxisAlignedRectangle(pts) ==
    /\ Cardinality(Xs(pts)) = 2
    /\ Cardinality(Ys(pts)) = 2
    /\ PointSet(pts) = Xs(pts) \X Ys(pts)

MinCorner(pts) == <<SetMin(Xs(pts)), SetMin(Ys(pts))>>
MaxCorner(pts) == <<SetMax(Xs(pts)), SetMax(Ys(pts))>>

\* C9: an axis-aligned rectangle becomes a box, and the box read back is the
\* rectangle's min/max pair.
C9_AxisAlignedRoundTrip ==
    IsAxisAlignedRectangle(points) =>
        /\ mask # NoMask => mask.kind = "box"
        /\ data # NoData =>
            /\ data.shape_type = "rectangle"
            /\ data.vertices = <<MinCorner(points), MaxCorner(points)>>

\* Side i of the quadrilateral, from vertex i to the next one around.
Side(pts, i) ==
    LET a == pts[i]
        b == pts[(i % 4) + 1]
    IN  <<b[1] - a[1], b[2] - a[2]>>

Cross(u, v) == u[1] * v[2] - u[2] * v[1]
Dot(u, v) == u[1] * v[1] + u[2] * v[2]

\* Four distinct vertices, in order around a strictly convex quadrilateral.
IsQuadrilateral(pts) ==
    /\ Cardinality(PointSet(pts)) = 4
    /\ \/ \A i \in 1..4 : Cross(Side(pts, i), Side(pts, (i % 4) + 1)) > 0
       \/ \A i \in 1..4 : Cross(Side(pts, i), Side(pts, (i % 4) + 1)) < 0

\* Four vertices in order around a rectangle: a quadrilateral whose adjacent
\* sides are perpendicular.
IsRectangle(pts) ==
    /\ IsQuadrilateral(pts)
    /\ \A i \in 1..4 : Dot(Side(pts, i), Side(pts, (i % 4) + 1)) = 0

\* Some side is parallel to a coordinate axis.
HasAxisParallelSide(pts) ==
    \E i \in 1..4 : Side(pts, i)[1] = 0 \/ Side(pts, i)[2] = 0

RoundTripsAsPolygon ==
    /\ mask # NoMask => mask.kind = "polygon"
    /\ data # NoData =>
        /\ data.shape_type = "polygon"
        /\ data.vertices = points

\* C10 as stated: every four-point quadrilateral with no side parallel to an
\* axis becomes a polygon, and the polygon read back is the four vertices in
\* their order.
C10_QuadrilateralRoundTrip ==
    (IsQuadrilateral(points) /\ ~HasAxisParallelSide(points)) => RoundTripsAsPolygon

\* C10 (amended): every four-point rectangle with no side parallel to an axis
\* becomes a polygon, and the polygon read back is the four vertices in their
\* order.
C10_RotatedRectangleRoundTrip ==
    (IsRectangle(points) /\ ~HasAxisParallelSide(points)) => RoundTripsAsPolygon

\* A rotated rectangle that is not a square has gone through both conversions.
C10_Witness ==
    /\ IsRectangle(points)
    /\ ~HasAxisParallelSide(points)
    /\ Dot(Side(points, 1), Side(points, 1)) # Dot(Side(points, 2), Side(points, 2))
    /\ mask.kind = "polygon"
    /\ data.shape_type = "polygon"
    /\ data.vertices = points

\* The classification of four points, stated on the input alone.  Nearest and
\* Farthest are the points the code calls min and max (np.argmin and
\* np.argmax keep the first of equals); Others are the positions of the points
\* equal to neither.
Nearest(pts) ==
    pts[SetMin({i \in 1..Len(pts) :
                   \A j \in 1..Len(pts) :
                       SqDistance(<<0, 0>>, pts[i]) <= SqDistance(<<0, 0>>, pts[j])})]

Farthest(pts) ==
    pts[SetMin({i \in 1..Len(pts) :
                   \A j \in 1..Len(pts) :
                       SqDistance(Nearest(pts), pts[i]) >= SqDistance(Nearest(pts), pts[j])})]

Others(pts) == {i \in 1..Len(pts) : pts[i] # Nearest(pts) /\ pts[i] # Farthest(pts)}

SharesAxisWithNearest(pts, i) == \E d \in 1..2 : pts[i][d] - Nearest(pts)[d] = 0

BoxOfNearestAndFarthest(pts) ==
    mask.kind = "box" => /\ mask.min = Nearest(pts)
                         /\ mask.max = Farthest(pts)

\* C11 as stated: min is the point nearest the origin, max the point farthest
\* from min, and the four points are classified axis-aligned (a box is built)
\* exactly when at least one of the points that are neither min nor max
\* differs from min by zero in some axis.
C11_AnyOtherCornerDecides ==
    mask # NoMask =>
        /\ BoxOfNearestAndFarthest(points)
        /\ mask.kind = "box" <=>
               \E i \in Others(points) : SharesAxisWithNearest(points, i)

\* C11 (amended): as above, but the classification is decided by the first
\* point, in input order, that is neither min nor max.
C11_FirstOtherCornerDecides ==
    mask # NoMask =>
        /\ BoxOfNearestAndFarthest(points)
        /\ mask.kind = "box" <=>
               /\ Others(points) # {}
               /\ SharesAxisWithNearest(points, SetMin(Others(points)))

\* Four distinct points were classified of which the first one that is neither
\* min nor max shares no coordinate with min while the second one does, and
\* no box was built.
C11_Witness ==
    /\ Cardinality(PointSet(points)) = 4
    /\ Cardinality(Others(points)) = 2
    /\ ~SharesAxisWithNearest(points, SetMin(Others(points)))
    /\ SharesAxisWithNearest(points, SetMax(Others(points)))
    /\ mask.kind = "polygon"

\* C24: the box built for an axis-aligned rectangle, wherever the rectangle
\* lies relative to the origin, has a min corner that is less than or equal
\* to its max corner in every coordinate.
C24_BoxMinBelowMax ==
    (IsAxisAlignedRectangle(points) /\ mask.kind = "box") =>
        \A d \in 1..2 : mask.min[d] <= mask.max[d]

\* C25: _rectangle_data_to_mask is total: for any four points, coinciding
\* ones included, it returns a box or a polygon and never fails.
C25_RectangleDataToMaskTotal ==
    mask # NoMask => mask.kind \in {"box", "polygon"}

(***************************************************************************)
(* Claims about whole layers.                                              *)
(***************************************************************************)
ShapeKinds == {"ellipse", "rectangle", "polygon", "line", "path"}
RoiKinds == {"ellipsoid", "box", "polygon", "line", "polyline"}

LayerThereAndBack == <<"_layer_to_roitree", "_roitree_to_layer">>
RoitreeThereAndBack == <<"_roitree_to_layer", "_layer_to_roitree">>
PointsThereAndBack == <<"_points_to_realpointcollection", "_realpointcollection_to_points">>

ArrivesAtShape(shapes, i) ==
    \A j \in 1..(i - 1) :
        /\ shapes[j].shape_type \in ShapeKinds
        /\ _shape_to_mask(shapes[j].data, shapes[j].shape_type).kind \notin Errors

ArrivesAtRoi(rois, i) == \A j \in 1..(i - 1) : rois[j].kind \in RoiKinds

NotImplemented == [type |-> "raised", error |-> "NotImplementedError"]

\* C18: when the codec arrives at a shape whose kind is none of ellipse,
\* rectangle, polygon, line, path (at a ROI that is none of ellipsoid, box,
\* polygon, line, polyline), the call raises NotImplementedError and the
\* caller receives no collection, at whatever position the shape stands.
C18_UnknownKindRaises ==
    /\ (given.type = "Shapes" /\ calls = <<"_layer_to_roitree">>) =>
           \A i \in 1..Len(given.shapes) :
               (given.shapes[i].shape_type \notin ShapeKinds
                    /\ ArrivesAtShape(given.shapes, i)) => roitree = NotImplemented
    /\ (given.type = "ROITree" /\ calls = <<"_roitree_to_layer">>) =>
           \A i \in 1..Len(given.rois) :
               (given.rois[i].kind \notin RoiKinds
                    /\ ArrivesAtRoi(given.rois, i)) => layer = NotImplemented

\* A layer whose second shape is of an unknown kind was converted: the call
\* raised although the first shape had been converted.
C18_Witness ==
    /\ given.type = "Shapes"
    /\ Len(given.shapes) = 2
    /\ given.shapes[1].shape_type = "path"
    /\ given.shapes[2].shape_type = "star"
    /\ calls = <<"_layer_to_roitree">>
    /\ roitree = NotImplemented

MaskKinds(shape_type) ==
    IF shape_type = "ellipse" THEN {"ellipsoid"}
    ELSE IF shape_type = "rectangle" THEN {"box", "polygon"}
    ELSE IF shape_type = "polygon" THEN {"polygon"}
    ELSE IF shape_type = "line" THEN {"line"}
    ELSE {"polyline"}

KindTag(kind) ==
    IF kind = "ellipsoid" THEN "ellipse"
    ELSE IF kind = "box" THEN "rectangle"
    ELSE IF kind = "polygon" THEN "polygon"
    ELSE IF kind = "line" THEN "line"
    ELSE "path"

\* C19: a layer of shapes of the five kinds converts to one mask per shape, in
\* layer order; a ROITree of ROIs of the five kinds converts to one shape per
\* ROI, in child order, each with the kind tag of its ROI.
C19_CountAndOrderKept ==
    /\ (/\ given.type = "Shapes"
        /\ calls = <<"_layer_to_roitree">>
        /\ \A i \in 1..Len(given.shapes) : given.shapes[i].shape_type \in ShapeKinds) =>
           /\ roitree.type = "ROITree"
           /\ Len(roitree.rois) = Len(given.shapes)
           /\ \A i \in 1..Len(given.shapes) :
                  roitree.rois[i].kind \in MaskKinds(given.shapes[i].shape_type)
    /\ (/\ given.type = "ROITree"
        /\ calls = <<"_roitree_to_layer">>
        /\ \A i \in 1..Len(given.rois) : given.rois[i].kind \in RoiKinds) =>
           /\ layer.type = "Shapes"
           /\ Len(layer.shapes) = Len(given.rois)
           /\ \A i \in 1..Len(given.rois) :
                  layer.shapes[i].shape_type = KindTag(given.rois[i].kind)

(***************************************************************************)
(* Claims about the Java classes.                                          *)
(***************************************************************************)
NotReady == [raised |-> TRUE, error |-> "Exception", value |-> None]

C15_UnresolvedNameRaises ==
    \A i \in 1..Len(lookups) :
        (lookups[i].ready /\ lookups[i].name \notin classpath) => lookups[i].result.raised

\* C15 (amended): after the start of the JVM, the lookup of a name that does
\* not resolve completes normally and yields None, no handle and no error.
C15_UnresolvedNameYieldsNone ==
    \A i \in 1..Len(lookups) :
        (lookups[i].ready /\ lookups[i].name \notin classpath) =>
            /\ ~lookups[i].result.raised
            /\ lookups[i].result.value = None

\* A class that is not on the classpath was looked up after the start.
C15_Witness ==
    /\ jvm_started
    /\ "ij.ImagePlus" \notin classpath
    /\ \E i \in 1..Len(lookups) :
           /\ lookups[i].ready
           /\ lookups[i].name = "ij.ImagePlus"
           /\ lookups[i].result.value = None

(***************************************************************************)
(* Claims about the gateway.                                               *)
(***************************************************************************)
\* Version v is below version m (three numbers each).
Below(v, m) ==
    \/ v[1] < m[1]
    \/ v[1] = m[1] /\ v[2] < m[2]
    \/ v[1] = m[1] /\ v[2] = m[2] /\ v[3] < m[3]

\* The components on the classpath whose installed version is below the
\* declared minimum.
Violating ==
    {c \in DOMAIN installed : installed[c] # Absent /\ Below(installed[c], minimum_versions[c])}

\* C21: the validation raises exactly when some checked component is below
\* its minimum, and then the one report of the one error names each such
\* component once and no other component; else nothing is raised.
C21_OneReportOfAllViolations ==
    \A i \in 1..Len(gateway_calls) :
        gateway_calls[i].validated =>
            /\ gateway_calls[i].raised <=> Violating # {}
            /\ {gateway_calls[i].report[k].component :
                    k \in 1..Len(gateway_calls[i].report)} = Violating
            /\ Len(gateway_calls[i].report) = Cardinality(Violating)

\* A validation found three components below their minimum and one at it.
C21_Witness ==
    /\ Cardinality(Violating) = 3
    /\ installed["net.imagej:imagej-common"] = <<2, 0, 2>>
    /\ Len(gateway_calls) >= 1
    /\ gateway_calls[1].raised
    /\ Len(gateway_calls[1].report) = 3

\* C22: once the validation of init_ij has raised, the gateway is not
\* available: every later ij() raises and every later init_ij() raises too.
C22_NoGatewayAfterViolation ==
    \A i, j \in 1..Len(gateway_calls) :
        (i < j /\ gateway_calls[i].fn = "init_ij" /\ gateway_calls[i].raised) =>
            gateway_calls[j].raised

\* C23: ij() raises when no init_ij() call has been made before it and never
\* returns None; ImageJ is launched at most once; every init_ij() call after
\* a successful one returns the gateway of that one without a launch.
C23_GatewayCreatedOnce ==
    /\ \A j \in 1..Len(gateway_calls) :
           gateway_calls[j].fn = "ij" =>
               /\ (\A i \in 1..(j - 1) : gateway_calls[i].fn # "init_ij") =>
                      gateway_calls[j].raised
               /\ ~gateway_calls[j].raised => gateway_calls[j].value.created
    /\ launches <= 1
    /\ Cardinality({i \in 1..Len(gateway_calls) : gateway_calls[i].launched}) <= 1
    /\ \A i, j \in 1..Len(gateway_calls) :
           (/\ i < j
            /\ gateway_calls[i].fn = "init_ij"
            /\ ~gateway_calls[i].raised
            /\ gateway_calls[j].fn = "init_ij") =>
               /\ ~gateway_calls[j].raised
               /\ gateway_calls[j].value = gateway_calls[i].value
               /\ ~gateway_calls[j].launched

\* ij() raised, then init_ij() launched ImageJ, then init_ij() returned the
\* same gateway without a launch.
C23_Witness ==
    /\ Len(gateway_calls) = 3
    /\ gateway_calls[1].fn = "ij"
    /\ gateway_calls[1].raised
    /\ gateway_calls[2].fn = "init_ij"
    /\ gateway_calls[2].launched
    /\ ~gateway_calls[2].raised
    /\ gateway_calls[3].fn = "init_ij"
    /\ ~gateway_calls[3].launched
    /\ gateway_calls[3].value = gateway_calls[2].value

(***************************************************************************)
(* Claims about the menu and the settings.                                 *)
(***************************************************************************)
\* C26: _apply_setting_param returns True exactly when the stored value of
\* the setting after the call differs from the one before; when the offered
\* value is rejected it returns False and leaves every setting as it was.
C26_ReturnsWhetherChanged ==
    applied.call = "_apply_setting_param" =>
        /\ applied.returned <=> settings[applied.setting] # applied.before[applied.setting]
        /\ applied.popup => (~applied.returned /\ settings = applied.before)

\* A Path naming another directory than the stored one was applied.
C26_Witness ==
    /\ applied.call = "_apply_setting_param"
    /\ applied.offered = Path("/opt/fiji")
    /\ applied.before["imagej_base_directory"] = Str(".")
    /\ settings["imagej_base_directory"] = Str("/opt/fiji")
    /\ applied.returned

\* C27: the stored jvm_mode is always 'interactive' or 'headless'.
C27_JvmModeWithinChoices ==
    settings # << >> => settings["jvm_mode"].text \in JvmModeChoices

\* C28: the UI setup is carried out at most once, however many UIShownEvents
\* are delivered and however the deliveries interleave.
C28_SetupAtMostOnce ==
    setups <= 1

\* C29: when the chooser is dismissed, the popup is shown and nothing is
\* transferred, for send_chosen_layer and for get_chosen_layer.
C29_DismissedChooserShowsPopup ==
    (clicked.handler # "none" /\ clicked.choices.dismissed) =>
        /\ clicked.popup
        /\ clicked.transferred = None

(***************************************************************************)
(* Claims about ExampleQWidget.                                            *)
(***************************************************************************)
\* C30: one click on a visible action button starts exactly one module run,
\* that of the module highlighted last.
C30_OneRunOfHighlighted ==
    runs.clicked => runs.started = <<highlighted[Len(highlighted)]>>

(***************************************************************************)
(* Claims about the type resolver.                                         *)
(***************************************************************************)
\* The pairs whose jtype can reach the item's type J under relation func, and
\* those whose jtype is reachable from J.
ReachesItem(item, func) ==
    {i \in 1..Len(ptypes) : <<ptypes[i].jtype, item.type>> \in func}
ReachedFromItem(item, func) ==
    {i \in 1..Len(ptypes) : <<item.type, ptypes[i].jtype>> \in func}

\* The pairs that match an item under func, by the rule of its direction.
Matching(item, func) ==
    CASE item.io = "INPUT" -> ReachesItem(item, func)
      [] item.io = "OUTPUT" -> ReachedFromItem(item, func)
      [] OTHER -> ReachesItem(item, func) \cap ReachedFromItem(item, func)

\* The first of a non-empty set of pairs in the scan order of the direction.
FirstScanned(item, Q) == IF item.io = "OUTPUT" THEN SetMax(Q) ELSE SetMin(Q)

CheckerRelation == IF resolved.by = "isAssignableChecker" THEN isAssignableFrom ELSE supports
CheckerCalled == resolved.by \in {"isAssignableChecker", "canConvertChecker"}
Resolved == resolved.by = "python_type_of"

\* python_type_of called the converter of this name.
Consulted(name) ==
    \E k \in 1..Len(resolved.result.consulted) :
        resolved.converters[resolved.result.consulted[k]].name = name

\* Rank of registered converters: higher priority first, and among equal
\* priorities the one registered first.
Precedes(cs, i, j) ==
    \/ cs[i].priority > cs[j].priority
    \/ cs[i].priority = cs[j].priority /\ i < j

\* C3: python_type_of tries the registered converters in descending priority,
\* equal priorities in registration order, and its result is the first
\* non-None answer met in that order (ValueError when every answer is None).
C3_PriorityThenRegistrationOrder ==
    Resolved =>
        LET cs == resolved.converters
            tried == resolved.result.consulted
            triedSet == {tried[k] : k \in 1..Len(tried)}
        IN  /\ \A k \in 1..Len(tried) - 1 : Precedes(cs, tried[k], tried[k + 1])
            /\ \A i \in triedSet, j \in (1..Len(cs)) \ triedSet : Precedes(cs, i, j)
            /\ \A k \in 1..Len(tried) - 1 : CallConverter(cs[tried[k]], module_item) = None
            /\ IF resolved.result.raised
               THEN /\ triedSet = 1..Len(cs)
                    /\ \A i \in triedSet : CallConverter(cs[i], module_item) = None
               ELSE /\ tried # << >>
                    /\ resolved.result.value # None
                    /\ resolved.result.value
                           = CallConverter(cs[tried[Len(tried)]], module_item)

\* Two converters of one priority, both with an answer, registered after a
\* converter of lower priority: the answer is that of the one registered first.
C3_Witness ==
    /\ Resolved
    /\ ~resolved.result.raised
    /\ \E i, j, l \in 1..Len(resolved.converters) :
        LET cs == resolved.converters
        IN  /\ l < i /\ i < j
            /\ cs[l].priority < cs[i].priority
            /\ cs[i].priority = cs[j].priority
            /\ cs[i].name = "registered" /\ cs[j].name = "registered"
            /\ cs[i].ret # None /\ cs[j].ret # None /\ cs[i].ret # cs[j].ret
            /\ resolved.result.value = cs[i].ret
            /\ resolved.result.consulted[Len(resolved.result.consulted)] = i

\* C4 as stated: the conversion checker is consulted only when no pair matches
\* by assignability, and whenever a pair matches by assignability the resolved
\* type is the assignability checker's first match.
C4_AssignabilityAlwaysDecides ==
    Resolved =>
        LET Q == Matching(module_item, isAssignableFrom)
        IN  /\ Consulted("canConvertChecker") => Q = {}
            /\ Q # {} =>
                /\ ~resolved.result.raised
                /\ resolved.result.value = ptypes[FirstScanned(module_item, Q)].ptype

\* C4 (amended): the conversion checker is consulted only when no pair matches
\* by assignability; whenever a pair matches by assignability, and the item is
\* not a pure input whose type has a placeholder, the resolved type is the
\* assignability checker's first match.
C4_AssignabilityBeforeConversion ==
    Resolved =>
        LET Q == Matching(module_item, isAssignableFrom)
            overridden == module_item.io = "INPUT" /\ placeholders[module_item.type] # None
        IN  /\ Consulted("canConvertChecker") => Q = {}
            /\ (Q # {} /\ ~overridden) =>
                /\ ~resolved.result.raised
                /\ ~Consulted("canConvertChecker")
                /\ resolved.result.value = ptypes[FirstScanned(module_item, Q)].ptype

\* A pair matching by conversion support only is scanned before the first pair
\* matching by assignability, and the latter's type is the result.
C4_Witness ==
    /\ Resolved
    /\ Matching(module_item, isAssignableFrom) # {}
    /\ LET Q == Matching(module_item, isAssignableFrom)
           first == FirstScanned(module_item, Q)
       IN  /\ \E i \in Matching(module_item, supports) \ Q :
                /\ IF module_item.io = "OUTPUT" THEN i > first ELSE i < first
                /\ ptypes[i].ptype # ptypes[first].ptype
           /\ resolved.result.value = ptypes[first].ptype

\* C5: for an input-only item a checker returns the type of the first pair, in
\* table order, whose jtype can reach the item's type (None when there is none).
C5_InputFirstReachingPair ==
    (CheckerCalled /\ module_item.io = "INPUT") =>
        LET Q == ReachesItem(module_item, CheckerRelation)
        IN  resolved.result.value = IF Q = {} THEN None ELSE ptypes[SetMin(Q)].ptype

\* Two pairs of different types qualify; the earlier one is returned.
C5_Witness ==
    /\ CheckerCalled
    /\ module_item.io = "INPUT"
    /\ \E i, j \in ReachesItem(module_item, CheckerRelation) :
        /\ i < j
        /\ ptypes[i].ptype # ptypes[j].ptype
        /\ resolved.result.value = ptypes[i].ptype

\* C6: for an output-only item a checker scans the table in reverse and returns
\* the type of the first pair met whose jtype is reachable from the item's type
\* (None when there is none).
C6_OutputLastReachedPair ==
    (CheckerCalled /\ module_item.io = "OUTPUT") =>
        LET Q == ReachedFromItem(module_item, CheckerRelation)
        IN  resolved.result.value = IF Q = {} THEN None ELSE ptypes[SetMax(Q)].ptype

\* Two pairs of different types qualify; the later one is returned, and the
\* returned pair's jtype does not reach the item's type.
C6_Witness ==
    /\ CheckerCalled
    /\ module_item.io = "OUTPUT"
    /\ \E i, j \in ReachedFromItem(module_item, CheckerRelation) :
        /\ i < j
        /\ ptypes[i].ptype # ptypes[j].ptype
        /\ j \notin ReachesItem(module_item, CheckerRelation)
        /\ resolved.result.value = ptypes[j].ptype

\* C7: for an item that is both input and output, a checker returns the type of
\* the first pair, in table order, that satisfies the input-only rule and the
\* output-only rule at once (None when there is none), and python_type_of
\* returns such a pair's type: the assignability checker's if it has one, else
\* the conversion checker's, else it raises.
C7_BothDirections ==
    module_item.io = "BOTH" =>
        /\ CheckerCalled =>
            LET Q == ReachesItem(module_item, CheckerRelation)
                         \cap ReachedFromItem(module_item, CheckerRelation)
            IN  resolved.result.value = IF Q = {} THEN None ELSE ptypes[SetMin(Q)].ptype
        /\ Resolved =>
            LET QA == ReachesItem(module_item, isAssignableFrom)
                          \cap ReachedFromItem(module_item, isAssignableFrom)
                QS == ReachesItem(module_item, supports)
                          \cap ReachedFromItem(module_item, supports)
            IN  IF QA # {} THEN resolved.result.value = ptypes[SetMin(QA)].ptype
                ELSE IF QS # {} THEN resolved.result.value = ptypes[SetMin(QS)].ptype
                ELSE resolved.result.raised

\* An earlier pair holds in one direction only and is passed over for a later
\* pair of another type that holds in both.
C7_Witness ==
    /\ CheckerCalled
    /\ module_item.io = "BOTH"
    /\ \E i, j \in 1..Len(ptypes) :
        /\ i < j
        /\ i \in ReachesItem(module_item, CheckerRelation)
        /\ i \notin ReachedFromItem(module_item, CheckerRelation)
        /\ j \in ReachesItem(module_item, CheckerRelation)
                     \cap ReachedFromItem(module_item, CheckerRelation)
        /\ ptypes[i].ptype # ptypes[j].ptype
        /\ resolved.result.value = ptypes[j].ptype

\* C8: for a pure input whose type has a placeholder, python_type_of returns
\* the placeholder and consults neither checker; for an item that is an output
\* it never returns a placeholder.
C8_PlaceholderPureInputOnly ==
    Resolved =>
        /\ (module_item.io = "INPUT" /\ placeholders[module_item.type] # None) =>
            /\ ~resolved.result.raised
            /\ resolved.result.value = placeholders[module_item.type]
            /\ ~Consulted("isAssignableChecker")
            /\ ~Consulted("canConvertChecker")
        /\ module_item.io \in {"OUTPUT", "BOTH"} =>
            resolved.result.value \notin PlaceholderTypes

\* A pure input with a placeholder that the assignability checker could also
\* satisfy resolves to the placeholder.
C8_Witness ==
    /\ Resolved
    /\ module_item.io = "INPUT"
    /\ placeholders[module_item.type] # None
    /\ ReachesItem(module_item, isAssignableFrom) # {}
    /\ resolved.result.value = placeholders[module_item.type]

\* C20: the registry is sealed by its first use for resolution; once
\* python_type_of has run, no converter is added to the registry and none is
\* removed, so every later resolution iterates the rule set of the first.
C20_SealedByFirstResolution ==
    [][resolved.by = "python_type_of" =>
          _MODULE_ITEM_CONVERTERS' = _MODULE_ITEM_CONVERTERS]_vars

====
